---------------------------- MODULE Spec2Model ----------------------------
(***************************************************************************)
(* Sliding-window simulation scheduling and batch execution of the MACD    *)
(* parameter analysis: task-set construction (strategies/macd), task       *)
(* identity (schemas/orm_models.py), the orchestrator (main.py) and the    *)
(* persistence consumer (src/runner.py).                                   *)
(*                                                                         *)
(* Timestamps are integers counted in units of the timeframe delta, so     *)
(* data_config.timeframe_td is 1.                                          *)
(***************************************************************************)
EXTENDS Integers, Sequences, FiniteSets, TLC

VARIABLES
    \* inputs of a run (main.py:39-43, main()'s arguments)
    data_configs, macd_params_grid, macd_window_configs,
    \* main(): locals of the per-data-config loop
    full_data, required_simulations,
    \* task-set construction, observed
    plan_pc, setup_calls, setup_error, second_setup,
    \* task identity, observed
    key_pc, task_a, task_b, eq_result, hash_a, hash_b,
    \* CODE_EXECUTION_CONTROL (main.py:43) and what collect_data returns per data config
    code_execution_control, market,
    \* the result store (table macd_histogram_sign_flip_strategy)
    store,
    \* main(): position, loop index, locals
    main_pc, dc_idx, existing_simulations, missing_simulations,
    batches, batch_status, completed, batch_results,
    \* db_worker_queue and the items put so far
    db_worker_queue, enqueued,
    \* db_worker(): position, buffer, bulk inserts done, last get timed out
    w_pc, buffer, flush_log, timed_out, w_error,
    \* load_code_execution_control_config: the parsed yaml, cpu_count(), the result
    load_pc, yaml_raw, cpu_count, loaded_config,
    \* MACDParams construction, iter_valid_macd_params, calculate_warmup_period, observed
    params_pc, candidate, construct_result, yielded, warmup_result,
    \* extract_metrics / reconstruct_metrics: stats, keyword argument, results
    codec_pc, stats, drop_unrecoverable, encoded, decoded,
    \* generate_MACD_histogram_sign_flip_signals: arguments, the histogram, the result
    signal_pc, market_data, signal_params, cut_warmup_period, macd_histogram, signal_result,
    \* sanitize_simulation_period_start_date: position, DATA_CONFIGS before the call
    sanitize_pc, original_data_configs,
    \* a re-run: the runs of main() that have ended, the data configs the first
    \* run skipped, and how the first run ended
    runs_done, skipped, first_run

inputVars == << data_configs, macd_params_grid, macd_window_configs >>
planVars == << full_data, required_simulations, plan_pc, setup_calls, setup_error, second_setup >>
keyVars == << key_pc, task_a, task_b, eq_result, hash_a, hash_b >>
pipeInputVars == << code_execution_control, market >>
mainVars == << main_pc, dc_idx, existing_simulations, missing_simulations,
               batches, batch_status, completed, batch_results >>
queueVars == << db_worker_queue, enqueued >>
workerVars == << w_pc, buffer, flush_log, timed_out, w_error >>
pipeVars == << code_execution_control, market, store,
               main_pc, dc_idx, existing_simulations, missing_simulations,
               batches, batch_status, completed, batch_results,
               db_worker_queue, enqueued, w_pc, buffer, flush_log, timed_out, w_error >>
loadVars == << load_pc, yaml_raw, cpu_count, loaded_config >>
paramsVars == << params_pc, candidate, construct_result, yielded, warmup_result >>
codecVars == << codec_pc, stats, drop_unrecoverable, encoded, decoded >>
signalVars == << signal_pc, market_data, signal_params, cut_warmup_period, macd_histogram,
                signal_result >>
sanitizeVars == << sanitize_pc, original_data_configs >>
runVars == << runs_done, skipped, first_run >>
unitVars == << load_pc, yaml_raw, cpu_count, loaded_config,
               params_pc, candidate, construct_result, yielded, warmup_result,
               codec_pc, stats, drop_unrecoverable, encoded, decoded,
               signal_pc, market_data, signal_params, cut_warmup_period, macd_histogram,
               signal_result, sanitize_pc, original_data_configs,
               runs_done, skipped, first_run >>
vars == << data_configs, macd_params_grid, macd_window_configs,
           full_data, required_simulations,
           plan_pc, setup_calls, setup_error, second_setup,
           key_pc, task_a, task_b, eq_result, hash_a, hash_b,
           code_execution_control, market, store,
           main_pc, dc_idx, existing_simulations, missing_simulations,
           batches, batch_status, completed, batch_results,
           db_worker_queue, enqueued, w_pc, buffer, flush_log, timed_out, w_error,
           load_pc, yaml_raw, cpu_count, loaded_config,
           params_pc, candidate, construct_result, yielded, warmup_result,
           codec_pc, stats, drop_unrecoverable, encoded, decoded,
           signal_pc, market_data, signal_params, cut_warmup_period, macd_histogram,
           signal_result, sanitize_pc, original_data_configs,
           runs_done, skipped, first_run >>

(* ------------------------------ bounds --------------------------------- *)
MaxBars == 5
MaxGap == 1
MaxWindowConfigs == 1
MaxDiff == 2
MaxBatchSize == 2
MaxBulkInsert == 2
MaxQueueSize == 2
MaxItems == 5
MaxDispatched == 3
MaxCpuCount == 4
MaxPeriod == 3
MaxGridPeriod == 2
MaxHalfMicros == 5

(* --------------------------- small helpers ----------------------------- *)
Range(s) == {s[i] : i \in DOMAIN s}

RECURSIVE SeqMax(_)
SeqMax(s) == IF Len(s) = 1 THEN s[1]
             ELSE LET m == SeqMax(Tail(s)) IN IF s[1] > m THEN s[1] ELSE m

RECURSIVE Flatten(_)
Flatten(ss) == IF ss = << >> THEN << >> ELSE Head(ss) \o Flatten(Tail(ss))

(* nondecreasing timestamp sequences: sorted(market_data) keeps equal       *)
(* timestamps, which a download overlapping the stored range produces       *)
RECURSIVE SortedTimestamps(_)
SortedTimestamps(n) ==
    IF n = 0 THEN { << >> }
    ELSE IF n = 1 THEN { << 0 >> }
    ELSE { Append(s, s[Len(s)] + g) : s \in SortedTimestamps(n - 1), g \in 0..MaxGap }

BarsOf(ts) == [i \in DOMAIN ts |-> [timestamp |-> ts[i]]]

(* total_bars bars at consecutive timestamps 0, 1, ... *)
ExampleBars(total_bars) == BarsOf([i \in 1..total_bars |-> i - 1])

(* ------------------------- schemas/macd_models ------------------------- *)
ValidMACDParams(fast, slow, signal) == 0 < fast /\ fast < slow /\ signal < slow

(* MACDParams(fast=, slow=, signal=): __post_init__ raises InvalidMACDParams *)
MACDParams(fast, slow, signal) ==
    [raised |-> ~ValidMACDParams(fast, slow, signal),
     params |-> [fast |-> fast, slow |-> slow, signal |-> signal]]

(* ------------------------- strategies/macd/common ---------------------- *)
(* the warm-up without the - 1 *)
calculate_warmup_period_NoMinusOne(macd_params) == macd_params.slow + macd_params.signal

calculate_warmup_period(macd_params) == macd_params.slow + macd_params.signal - 1

calculate_max_warmup_period(macd_param_grid) ==
    SeqMax(macd_param_grid.slow_periods) + SeqMax(macd_param_grid.signal_periods) - 1

GridProduct(g) ==
    LET nS == Len(g.slow_periods)
        nG == Len(g.signal_periods)
        n  == Len(g.fast_periods) * nS * nG
    IN [k \in 1..n |->
          [fast   |-> g.fast_periods[((k - 1) \div (nS * nG)) + 1],
           slow   |-> g.slow_periods[(((k - 1) \div nG) % nS) + 1],
           signal |-> g.signal_periods[((k - 1) % nG) + 1]]]

IsValidTriple(p) == ValidMACDParams(p.fast, p.slow, p.signal)

(* every triple of the product is yielded *)
iter_valid_macd_params_NoFilter(macd_param_grid) == GridProduct(macd_param_grid)

iter_valid_macd_params(macd_param_grid) ==
    SelectSeq(GridProduct(macd_param_grid), IsValidTriple)

(* ----------------------- schemas/orm_models: identity ------------------ *)
BaseEq(a, b) ==
    /\ a.asset = b.asset
    /\ a.timeframe = b.timeframe
    /\ a.start_date = b.start_date
    /\ a.end_date = b.end_date
    /\ a.initial_cash = b.initial_cash
    /\ a.fee = b.fee
    /\ a.slippage = b.slippage
    /\ a.position_sizing = b.position_sizing
    /\ a.direction = b.direction
    /\ a.random_seed = b.random_seed

(* __eq__ of the subclass forgets signal_period *)
TaskEq_NoSignal(a, b) ==
    /\ BaseEq(a, b)
    /\ a.fast_period = b.fast_period
    /\ a.slow_period = b.slow_period

TaskEq(a, b) ==
    /\ BaseEq(a, b)
    /\ a.fast_period = b.fast_period
    /\ a.slow_period = b.slow_period
    /\ a.signal_period = b.signal_period

(* CPython hash of an int of magnitude below 2^61 - 1: the int itself,     *)
(* except that -1 hashes to -2.  Strings hash to themselves here (an       *)
(* injective stand-in for the per-process string hash); a tuple's hash is  *)
(* a function of its elements' hashes, kept as the tuple of those hashes.  *)
PyHashInt(n) == IF n = -1 THEN -2 ELSE n

BaseHash(a) ==
    << a.asset, a.timeframe, PyHashInt(a.start_date), PyHashInt(a.end_date),
       PyHashInt(a.initial_cash), PyHashInt(a.fee), PyHashInt(a.slippage),
       a.position_sizing, a.direction, PyHashInt(a.random_seed) >>

TaskHash(a) ==
    << BaseHash(a), PyHashInt(a.fast_period), PyHashInt(a.slow_period),
       PyHashInt(a.signal_period) >>

(* the 13-field composite key *)
CompositeKey(a) ==
    << a.asset, a.timeframe, a.start_date, a.end_date, a.initial_cash, a.fee,
       a.slippage, a.position_sizing, a.direction, a.random_seed,
       a.fast_period, a.slow_period, a.signal_period >>

(* whole-object equality: every element of the list is kept *)
PySet_WholeObject(out_list) == Range(out_list)

(* set(out_list): an element is kept unless an equal one (same hash, ==)   *)
(* was inserted before it                                                  *)
PySet(out_list) ==
    { out_list[i] : i \in { k \in DOMAIN out_list :
          \A j \in 1..(k - 1) :
              ~(TaskHash(out_list[j]) = TaskHash(out_list[k]) /\ TaskEq(out_list[j], out_list[k])) } }

(* --------------------- strategies/macd/combinations -------------------- *)
(* SimulationConfig class variables and default seed *)
SimInitialCash == 10000
SimFee == 1
SimSlippage == 1
SimRandomSeed == 0

(* the loop also runs for idx = stop *)
WindowIdx_InclusiveStop(total_bars, stop, shift) ==
    LET n == IF total_bars >= stop THEN ((total_bars - stop) \div shift) + 1 ELSE 0
    IN [k \in 1..n |-> total_bars - (k - 1) * shift]

(* range(len(full_data), max_warmup + window_size - 1, -window_shift) *)
WindowIdx(total_bars, stop, shift) ==
    LET n == IF total_bars > stop THEN ((total_bars - stop - 1) \div shift) + 1 ELSE 0
    IN [k \in 1..n |-> total_bars - (k - 1) * shift]

(* the end date is the last bar's timestamp, inclusive *)
SetupTask_InclusiveEnd(data_config, execution_config, macd_params, window_config, bars, idx) ==
    LET warmup_period == calculate_warmup_period(macd_params)
        end_idx   == idx
        start_idx == end_idx - (window_config.window_size + warmup_period)
    IN [asset |-> data_config.asset,
        timeframe |-> data_config.timeframe,
        start_date |-> bars[start_idx + warmup_period + 1].timestamp,
        end_date |-> bars[(end_idx - 1) + 1].timestamp,
        initial_cash |-> SimInitialCash,
        fee |-> SimFee,
        slippage |-> SimSlippage,
        position_sizing |-> execution_config.position_sizing,
        direction |-> execution_config.direction,
        random_seed |-> SimRandomSeed,
        fast_period |-> macd_params.fast,
        slow_period |-> macd_params.slow,
        signal_period |-> macd_params.signal,
        start_idx |-> start_idx,
        end_idx |-> end_idx,
        metrics |-> "unset",
        run_timestamp |-> 0]

SetupTask(data_config, execution_config, macd_params, window_config, bars, idx) ==
    LET warmup_period == calculate_warmup_period(macd_params)
        end_idx   == idx
        start_idx == end_idx - (window_config.window_size + warmup_period)
    IN [asset |-> data_config.asset,
        timeframe |-> data_config.timeframe,
        start_date |-> bars[start_idx + warmup_period + 1].timestamp,
        end_date |-> bars[(end_idx - 1) + 1].timestamp + data_config.timeframe_td,
        initial_cash |-> SimInitialCash,
        fee |-> SimFee,
        slippage |-> SimSlippage,
        position_sizing |-> execution_config.position_sizing,
        direction |-> execution_config.direction,
        random_seed |-> SimRandomSeed,
        fast_period |-> macd_params.fast,
        slow_period |-> macd_params.slow,
        signal_period |-> macd_params.signal,
        start_idx |-> start_idx,
        end_idx |-> end_idx,
        metrics |-> "unset",
        run_timestamp |-> 0]

(* the loop stops at window_size - 1 and the safeguard is gone *)
get_macd_setup_for_params_NoWarmup(data_config, execution_config, macd_params, window_config, bars, max_warmup) ==
    LET idxs == WindowIdx(Len(bars), window_config.window_size - 1,
                          window_config.window_shift)
    IN [raised |-> FALSE,
        out |-> [k \in DOMAIN idxs |->
                   SetupTask(data_config, execution_config, macd_params,
                             window_config, bars, idxs[k])]]

(* result: raised = the ValueError safeguard fired; out = the task list *)
get_macd_setup_for_params(data_config, execution_config, macd_params, window_config, bars, max_warmup) ==
    LET warmup_period == calculate_warmup_period(macd_params)
        idxs == WindowIdx(Len(bars), max_warmup + window_config.window_size - 1,
                          window_config.window_shift)
        bad  == \E k \in DOMAIN idxs :
                   idxs[k] - (window_config.window_size + warmup_period) < 0
    IN IF bad THEN [raised |-> TRUE, out |-> << >>]
       ELSE [raised |-> FALSE,
             out |-> [k \in DOMAIN idxs |->
                        SetupTask(data_config, execution_config, macd_params,
                                  window_config, bars, idxs[k])]]

(* every triple is planned with its own warm-up as the loop bound *)
SetupCalls_OwnWarmup(data_config, execution_config, params_grid, window_configs, bars) ==
    LET valid == iter_valid_macd_params(params_grid)
        nV == Len(valid)
    IN [c \in 1..(Len(window_configs) * nV) |->
          LET macd_params == valid[((c - 1) % nV) + 1]
              window_config == window_configs[((c - 1) \div nV) + 1]
          IN [macd_params |-> macd_params,
              window_config |-> window_config,
              result |-> get_macd_setup_for_params(data_config, execution_config,
                             macd_params, window_config, bars,
                             calculate_warmup_period(macd_params))]]

SetupCalls(data_config, execution_config, params_grid, window_configs, bars) ==
    LET max_warmup == calculate_max_warmup_period(params_grid)
        valid == iter_valid_macd_params(params_grid)
        nV == Len(valid)
    IN [c \in 1..(Len(window_configs) * nV) |->
          LET macd_params == valid[((c - 1) % nV) + 1]
              window_config == window_configs[((c - 1) \div nV) + 1]
          IN [macd_params |-> macd_params,
              window_config |-> window_config,
              result |-> get_macd_setup_for_params(data_config, execution_config,
                             macd_params, window_config, bars, max_warmup)]]

get_all_macd_setup(data_config, execution_config, params_grid, window_configs, bars) ==
    LET calls == SetupCalls(data_config, execution_config, params_grid,
                            window_configs, bars)
    IN IF \E c \in DOMAIN calls : calls[c].result.raised
       THEN [raised |-> TRUE, out_list |-> << >>, out |-> {}]
       ELSE LET out_list == Flatten([c \in DOMAIN calls |-> calls[c].result.out])
            IN [raised |-> FALSE, out_list |-> out_list, out |-> PySet(out_list)]

(* ======================================================================= *)
(* Task-set construction: SpecPlan                                         *)
(* ======================================================================= *)
EXECUTION_CONFIG == [position_sizing |-> "fixed", direction |-> "long_only"]

DataConfigOf(asset) ==
    [source |-> "yfinance", asset |-> asset, timeframe |-> "1d", timeframe_td |-> 1]

ExampleBarsKey == BarsOf(<< 0, 1, 2, 4, 7 >>)

(* range() lists of the three period axes *)
PeriodLists(lo, hi) == { << lo >>, << lo, hi >> }

PlanGrids ==
    [fast_periods : PeriodLists(1, 2),
     slow_periods : PeriodLists(2, 3),
     signal_periods : PeriodLists(1, 2)]

WindowConfigs == [window_size : 1..2, window_shift : 1..2]

WindowConfigLists ==
    UNION { [1..n -> WindowConfigs] : n \in 1..MaxWindowConfigs }

LoadIdle ==
    /\ load_pc = "idle"
    /\ yaml_raw = << >>
    /\ cpu_count = 0
    /\ loaded_config = << >>

ParamsIdle ==
    /\ params_pc = "idle"
    /\ candidate = << >>
    /\ construct_result = << >>
    /\ yielded = << >>
    /\ warmup_result = 0

CodecIdle ==
    /\ codec_pc = "idle"
    /\ stats = << >>
    /\ drop_unrecoverable = FALSE
    /\ encoded = << >>
    /\ decoded = << >>

SignalIdle ==
    /\ signal_pc = "idle"
    /\ market_data = << >>
    /\ signal_params = << >>
    /\ cut_warmup_period = FALSE
    /\ macd_histogram = << >>
    /\ signal_result = << >>

SanitizeIdle ==
    /\ sanitize_pc = "idle"
    /\ original_data_configs = << >>

RunIdle ==
    /\ runs_done = 0
    /\ skipped = {}
    /\ first_run = << >>

UnitIdle == LoadIdle /\ ParamsIdle /\ CodecIdle /\ SignalIdle /\ SanitizeIdle /\ RunIdle

PipeIdle ==
    /\ code_execution_control = << >>
    /\ market = << >>
    /\ store = {}
    /\ main_pc = "idle"
    /\ dc_idx = 0
    /\ existing_simulations = {}
    /\ missing_simulations = {}
    /\ batches = << >>
    /\ batch_status = << >>
    /\ completed = << >>
    /\ batch_results = << >>
    /\ db_worker_queue = << >>
    /\ enqueued = << >>
    /\ w_pc = "idle"
    /\ buffer = << >>
    /\ flush_log = << >>
    /\ timed_out = FALSE
    /\ w_error = "none"

KeyIdle ==
    /\ key_pc = "idle"
    /\ task_a = << >>
    /\ task_b = << >>
    /\ eq_result = FALSE
    /\ hash_a = << >>
    /\ hash_b = << >>

PlanInit ==
    /\ data_configs = << DataConfigOf("A") >>
    /\ macd_params_grid \in PlanGrids
    /\ macd_window_configs \in WindowConfigLists
    /\ \E n \in 0..MaxBars : \E ts \in SortedTimestamps(n) : full_data = BarsOf(ts)
    /\ required_simulations = {}
    /\ plan_pc = "start"
    /\ setup_calls = << >>
    /\ setup_error = FALSE
    /\ second_setup = {}
    /\ KeyIdle
    /\ PipeIdle
    /\ UnitIdle

(* required_simulations = macd.get_all_macd_setup(...)  (main.py:127-133) *)
BuildSetup ==
    /\ plan_pc = "start"
    /\ LET r == get_all_macd_setup(data_configs[1], EXECUTION_CONFIG, macd_params_grid,
                                   macd_window_configs, full_data)
       IN /\ required_simulations' = r.out
          /\ setup_error' = r.raised
    /\ setup_calls' = SetupCalls(data_configs[1], EXECUTION_CONFIG, macd_params_grid,
                                 macd_window_configs, full_data)
    /\ plan_pc' = "built"
    /\ UNCHANGED << full_data, second_setup >>
    /\ UNCHANGED << inputVars, unitVars >>
    /\ UNCHANGED keyVars
    /\ UNCHANGED pipeVars

(* a second invocation with the same arguments *)
RebuildSetup ==
    /\ plan_pc = "built"
    /\ second_setup' = get_all_macd_setup(data_configs[1], EXECUTION_CONFIG, macd_params_grid,
                                          macd_window_configs, full_data).out
    /\ plan_pc' = "rebuilt"
    /\ UNCHANGED << full_data, required_simulations, setup_calls, setup_error >>
    /\ UNCHANGED << inputVars, unitVars >>
    /\ UNCHANGED keyVars
    /\ UNCHANGED pipeVars

PlanNext == BuildSetup \/ RebuildSetup

SpecPlan == PlanInit /\ [][PlanNext]_vars

(* ======================================================================= *)
(* Task identity: SpecKey                                                  *)
(* ======================================================================= *)
KeyFields ==
    {"asset", "timeframe", "start_date", "end_date", "initial_cash", "fee", "slippage",
     "position_sizing", "direction", "random_seed", "fast_period", "slow_period",
     "signal_period"}

NonKeyFields == {"metrics", "run_timestamp", "start_idx", "end_idx"}

(* another value of the field's type *)
OtherValue(f, v) ==
    CASE f = "asset" -> "B"
      [] f = "timeframe" -> "1h"
      [] f = "position_sizing" -> "percent_equity"
      [] f = "direction" -> "long_short"
      [] f = "metrics" -> "filled"
      [] f = "random_seed" -> v - 1
      [] OTHER -> v + 1

BaseTasks ==
    LET t == SetupTask(DataConfigOf("A"), EXECUTION_CONFIG, [fast |-> 1, slow |-> 2, signal |-> 1],
                       [window_size |-> 1, window_shift |-> 1], ExampleBarsKey, 4)
    IN { t, [t EXCEPT !.random_seed = -1], [t EXCEPT !.metrics = "filled", !.run_timestamp = 7] }

PlanIdle ==
    /\ data_configs = << >>
    /\ macd_params_grid = << >>
    /\ macd_window_configs = << >>
    /\ full_data = << >>
    /\ required_simulations = {}
    /\ plan_pc = "idle"
    /\ setup_calls = << >>
    /\ setup_error = FALSE
    /\ second_setup = {}

KeyInit ==
    /\ PlanIdle
    /\ PipeIdle
    /\ UnitIdle
    /\ key_pc = "start"
    /\ task_a \in BaseTasks
    /\ \E D \in SUBSET (KeyFields \cup NonKeyFields) :
         /\ Cardinality(D) <= MaxDiff
         /\ task_b = [f \in DOMAIN task_a |->
                        IF f \in D THEN OtherValue(f, task_a[f]) ELSE task_a[f]]
    /\ eq_result = FALSE
    /\ hash_a = << >>
    /\ hash_b = << >>

(* task_a == task_b  (orm_models.py:119-136) *)
CompareTasks ==
    /\ key_pc = "start"
    /\ eq_result' = TaskEq(task_a, task_b)
    /\ key_pc' = "compared"
    /\ UNCHANGED << task_a, task_b, hash_a, hash_b >>
    /\ UNCHANGED << inputVars, unitVars >>
    /\ UNCHANGED planVars
    /\ UNCHANGED pipeVars

(* hash(task_a), hash(task_b) *)
HashTasks ==
    /\ key_pc = "compared"
    /\ hash_a' = TaskHash(task_a)
    /\ hash_b' = TaskHash(task_b)
    /\ key_pc' = "hashed"
    /\ UNCHANGED << task_a, task_b, eq_result >>
    /\ UNCHANGED << inputVars, unitVars >>
    /\ UNCHANGED planVars
    /\ UNCHANGED pipeVars

KeyNext == CompareTasks \/ HashTasks

SpecKey == KeyInit /\ [][KeyNext]_vars

(* ======================================================================= *)
(* Orchestrator and persistence consumer: Spec                             *)
(* ======================================================================= *)
PipeGrid == [fast_periods |-> << 1 >>, slow_periods |-> << 2 >>, signal_periods |-> << 1 >>]

PipeWindowConfigs == << [window_size |-> 1, window_shift |-> 1] >>

(* what collect_data returns for a data config: asset "A" with 5 or 4 bars,
   asset "B" with 4 bars *)
MarketA5 == [config |-> DataConfigOf("A"), bars |-> BarsOf(<< 0, 1, 2, 3, 4 >>)]

MarketA4 == [config |-> DataConfigOf("A"), bars |-> BarsOf(<< 0, 1, 2, 3 >>)]

MarketB4 == [config |-> DataConfigOf("B"), bars |-> BarsOf(<< 0, 1, 2, 3 >>)]

(* the data_config.yaml contents of a run: none, one asset, the same asset
   twice, two assets *)
MarketLists ==
    { << >>, << MarketA5 >>, << MarketA4, MarketA4 >>, << MarketA4, MarketB4 >> }

ControlConfigs ==
    [simulation_batch_size : 1..MaxBatchSize,
     db_bulk_insert_size : 1..MaxBulkInsert,
     consumer_queue_size : 0..MaxQueueSize]

(* start_idx / end_idx of a row loaded from the store: None *)
NoneIdx == -1

(* the row an insert writes for a task: the runtime-only fields are not columns *)
Row(t) == [t EXCEPT !.start_idx = NoneIdx, !.end_idx = NoneIdx]

(* metrics filled by _run_single_simulation_for_MACD *)
run_single_simulation_for_MACD(sim) == [sim EXCEPT !.metrics = "filled"]

batch_runner(batch) == [i \in DOMAIN batch |-> run_single_simulation_for_MACD(batch[i])]

(* a row left by an earlier run: the window ending at bar 4 of asset "A" *)
EarlierRow ==
    Row(run_single_simulation_for_MACD(
          SetupTask(DataConfigOf("A"), EXECUTION_CONFIG, [fast |-> 1, slow |-> 2, signal |-> 1],
                    PipeWindowConfigs[1], BarsOf(<< 0, 1, 2, 3 >>), 4)))

InitialStores == { {}, { EarlierRow } }

(* the query finds no stored row *)
get_macd_histogram_sign_flip_simulations_Nothing(st, data_config) == {}

(* select(...).where(asset == ..., timeframe == ...) *)
get_macd_histogram_sign_flip_simulations(st, data_config) ==
    { r \in st : r.asset = data_config.asset /\ r.timeframe = data_config.timeframe }

(* the difference by whole-object comparison *)
SetDifference_WholeObject(required, existing) == required \ existing

(* required_simulations - existing_simulations: membership by __hash__ and __eq__ *)
SetDifference(required, existing) ==
    { r \in required :
        ~ \E e \in existing : TaskHash(e) = TaskHash(r) /\ TaskEq(r, e) }

(* list(iterable) of a set: any order *)
ListsOf(S) ==
    { f \in [1..Cardinality(S) -> S] :
        \A i \in DOMAIN f : \A j \in DOMAIN f : i # j => f[i] # f[j] }

(* the trailing partial chunk is not yielded *)
chunked_DropsRemainder(list, n) ==
    [b \in 1..(Len(list) \div n) |-> SubSeq(list, (b - 1) * n + 1, b * n)]

(* main.py:90-94: list[i:i + n] for i in range(0, len(list), n) *)
chunked(list, n) ==
    LET count == (Len(list) + n - 1) \div n
    IN [b \in 1..count |->
          SubSeq(list, (b - 1) * n + 1,
                 IF b * n < Len(list) THEN b * n ELSE Len(list))]

(* the sentinel put by main(): None *)
Sentinel == [sentinel |-> TRUE]

IsSentinel(item) == DOMAIN item = {"sentinel"}

(* a queue that is never full *)
QueueFull_Unbounded(q) == FALSE

(* asyncio.Queue(maxsize): full() is maxsize > 0 and qsize() >= maxsize *)
QueueFull(q) ==
    /\ code_execution_control.consumer_queue_size > 0
    /\ Len(q) >= code_execution_control.consumer_queue_size

(* session.execute(insert(MACDHistogramSignFlipStrategy), rows): a plain
   INSERT; a row whose primary key is already stored, or occurs twice in the
   statement, violates the primary key *)
PrimaryKeyConflict(buf, st) ==
    \/ \E i \in DOMAIN buf : \E r \in st : CompositeKey(r) = CompositeKey(buf[i])
    \/ \E i \in DOMAIN buf : \E j \in DOMAIN buf :
          i # j /\ CompositeKey(buf[i]) = CompositeKey(buf[j])

Init ==
    /\ \E m \in MarketLists :
         /\ market = [i \in DOMAIN m |-> m[i].bars]
         /\ data_configs = [i \in DOMAIN m |-> m[i].config]
         /\ main_pc = IF Len(m) = 0 THEN "finally_put" ELSE "collect"
         /\ dc_idx = IF Len(m) = 0 THEN 0 ELSE 1
    /\ macd_params_grid = PipeGrid
    /\ macd_window_configs = PipeWindowConfigs
    /\ code_execution_control \in ControlConfigs
    /\ store \in InitialStores
    /\ full_data = << >>
    /\ required_simulations = {}
    /\ existing_simulations = {}
    /\ missing_simulations = {}
    /\ batches = << >>
    /\ batch_status = << >>
    /\ completed = << >>
    /\ batch_results = << >>
    /\ db_worker_queue = << >>
    /\ enqueued = << >>
    /\ w_pc = "get"
    /\ buffer = << >>
    /\ flush_log = << >>
    /\ timed_out = FALSE
    /\ w_error = "none"
    /\ plan_pc = "idle"
    /\ setup_calls = << >>
    /\ setup_error = FALSE
    /\ second_setup = {}
    /\ KeyIdle
    /\ UnitIdle

planObsVars == << plan_pc, setup_calls, setup_error, second_setup >>

(* `continue` / end of the loop body: the next data config, or the finally block *)
NextDataConfig ==
    IF dc_idx < Len(data_configs)
    THEN dc_idx' = dc_idx + 1 /\ main_pc' = "collect"
    ELSE dc_idx' = dc_idx /\ main_pc' = "finally_put"

(* how lines 119-125 of main.py end: both calls return, the download inside
   collect_data returns None or an empty frame (RuntimeError, api.py:185-186),
   or a query raises *)
CollectOutcomes == { "ok", "download_empty", "query_error" }

(* a failed collection leaves the loop over the data configs *)
CollectAndFetch_AbortsRun ==
    /\ main_pc = "collect"
    /\ \E outcome \in CollectOutcomes :
         IF outcome = "ok"
         THEN /\ full_data' = market[dc_idx]
              /\ existing_simulations' =
                   get_macd_histogram_sign_flip_simulations(store, data_configs[dc_idx])
              /\ main_pc' = "diff"
         ELSE /\ main_pc' = "finally_put"
              /\ UNCHANGED << full_data, existing_simulations >>
    /\ UNCHANGED << dc_idx, required_simulations, missing_simulations, batches, batch_status,
                    completed, batch_results, store >>
    /\ UNCHANGED << inputVars, unitVars, pipeInputVars, queueVars, workerVars, planObsVars, keyVars >>

(* main.py:119-125: collect_data and the existing-results query; either may
   raise, and the except clause continues with the next data config *)
CollectAndFetch ==
    /\ main_pc = "collect"
    /\ \E outcome \in CollectOutcomes :
         IF outcome = "ok"
         THEN /\ full_data' = market[dc_idx]
              /\ existing_simulations' =
                   get_macd_histogram_sign_flip_simulations(store, data_configs[dc_idx])
              /\ main_pc' = "diff"
              /\ dc_idx' = dc_idx
         ELSE /\ NextDataConfig
              /\ UNCHANGED << full_data, existing_simulations >>
    /\ UNCHANGED << required_simulations, missing_simulations, batches, batch_status,
                    completed, batch_results, store >>
    /\ UNCHANGED << inputVars, unitVars, pipeInputVars, queueVars, workerVars, planObsVars, keyVars >>

(* main.py:127-157: required set, missing set, one future per chunk *)
BuildAndDiff ==
    /\ main_pc = "diff"
    /\ LET r == get_all_macd_setup(data_configs[dc_idx], EXECUTION_CONFIG, macd_params_grid,
                                   macd_window_configs, full_data)
           missing == SetDifference(r.out, existing_simulations)
       IN IF r.raised
          THEN /\ main_pc' = "finally_put"
               /\ UNCHANGED << dc_idx, required_simulations, missing_simulations,
                               batches, batch_status, completed >>
          ELSE /\ required_simulations' = r.out
               /\ missing_simulations' = missing
               /\ IF missing = {}
                  THEN /\ NextDataConfig
                       /\ UNCHANGED << batches, batch_status, completed >>
                  ELSE /\ \E list \in ListsOf(missing) :
                            batches' = chunked(list, code_execution_control.simulation_batch_size)
                       /\ batch_status' = [b \in DOMAIN batches' |-> "running"]
                       /\ completed' = << >>
                       /\ main_pc' = "await_batch"
                       /\ dc_idx' = dc_idx
    /\ UNCHANGED << full_data, existing_simulations, batch_results, store >>
    /\ UNCHANGED << inputVars, unitVars, pipeInputVars, queueVars, workerVars, planObsVars, keyVars >>

(* a worker process finishes batch_runner(batch, full_data, timeframe), or raises *)
WorkerCompletes(b) ==
    /\ main_pc \in {"await_batch", "put", "pool_shutdown"}
    /\ b \in DOMAIN batch_status
    /\ batch_status[b] = "running"
    /\ \E ok \in BOOLEAN :
         IF ok
         THEN /\ batches' = [batches EXCEPT ![b] = batch_runner(batches[b])]
              /\ batch_status' = [batch_status EXCEPT ![b] = "done"]
         ELSE /\ batches' = batches
              /\ batch_status' = [batch_status EXCEPT ![b] = "failed"]
    /\ completed' = Append(completed, b)
    /\ UNCHANGED << main_pc, dc_idx, full_data, required_simulations, existing_simulations,
                    missing_simulations, batch_results, store >>
    /\ UNCHANGED << inputVars, unitVars, pipeInputVars, queueVars, workerVars, planObsVars, keyVars >>

AllBatchesAwaited == \A b \in DOMAIN batch_status : batch_status[b] = "consumed"

(* main.py:159-160: batch_results = await coro, in completion order *)
AwaitBatch ==
    /\ main_pc = "await_batch"
    /\ completed # << >>
    /\ LET b == Head(completed)
       IN IF batch_status[b] = "failed"
          THEN /\ main_pc' = "pool_shutdown"
               /\ UNCHANGED << batch_results, batch_status >>
          ELSE /\ batch_results' = batches[b]
               /\ batch_status' = [batch_status EXCEPT ![b] = "consumed"]
               /\ main_pc' = "put"
    /\ completed' = Tail(completed)
    /\ UNCHANGED << dc_idx, full_data, required_simulations, existing_simulations,
                    missing_simulations, batches, store >>
    /\ UNCHANGED << inputVars, unitVars, pipeInputVars, queueVars, workerVars, planObsVars, keyVars >>

(* the exception ends main() without the finally block *)
PoolShutdown_SkipsFinally ==
    /\ main_pc = "pool_shutdown"
    /\ \A b \in DOMAIN batch_status : batch_status[b] # "running"
    /\ main_pc' = "done"
    /\ UNCHANGED << dc_idx, full_data, required_simulations, existing_simulations,
                    missing_simulations, batches, batch_status, completed, batch_results, store >>
    /\ UNCHANGED << inputVars, unitVars, pipeInputVars, queueVars, workerVars, planObsVars, keyVars >>

(* the exception leaves `with ProcessPoolExecutor(...)`: shutdown(wait=True)
   returns once no batch is running; then main.py:164-165 logs it *)
PoolShutdown ==
    /\ main_pc = "pool_shutdown"
    /\ \A b \in DOMAIN batch_status : batch_status[b] # "running"
    /\ main_pc' = "finally_put"
    /\ UNCHANGED << dc_idx, full_data, required_simulations, existing_simulations,
                    missing_simulations, batches, batch_status, completed, batch_results, store >>
    /\ UNCHANGED << inputVars, unitVars, pipeInputVars, queueVars, workerVars, planObsVars, keyVars >>

(* main.py:161-162: await db_worker_queue.put(result) *)
PutResult ==
    /\ main_pc = "put"
    /\ ~QueueFull(db_worker_queue)
    /\ db_worker_queue' = Append(db_worker_queue, Head(batch_results))
    /\ enqueued' = Append(enqueued, Head(batch_results))
    /\ batch_results' = Tail(batch_results)
    /\ IF Tail(batch_results) # << >>
       THEN main_pc' = "put" /\ dc_idx' = dc_idx
       ELSE IF AllBatchesAwaited
            THEN NextDataConfig
            ELSE main_pc' = "await_batch" /\ dc_idx' = dc_idx
    /\ UNCHANGED << full_data, required_simulations, existing_simulations,
                    missing_simulations, batches, batch_status, completed, store >>
    /\ UNCHANGED << inputVars, unitVars, pipeInputVars, workerVars, planObsVars, keyVars >>

(* main.py:169: await db_worker_queue.put(None) *)
PutSentinel ==
    /\ main_pc = "finally_put"
    /\ ~QueueFull(db_worker_queue)
    /\ db_worker_queue' = Append(db_worker_queue, Sentinel)
    /\ main_pc' = "await_consumer"
    /\ UNCHANGED << dc_idx, full_data, required_simulations, existing_simulations,
                    missing_simulations, batches, batch_status, completed, batch_results,
                    store, enqueued >>
    /\ UNCHANGED << inputVars, unitVars, pipeInputVars, workerVars, planObsVars, keyVars >>

(* main.py:170: await db_worker_task *)
AwaitConsumer ==
    /\ main_pc = "await_consumer"
    /\ w_pc \in {"done", "failed"}
    /\ main_pc' = "done"
    /\ UNCHANGED << dc_idx, full_data, required_simulations, existing_simulations,
                    missing_simulations, batches, batch_status, completed, batch_results, store >>
    /\ UNCHANGED << inputVars, unitVars, pipeInputVars, queueVars, workerVars, planObsVars, keyVars >>

(* the event loop runs db_worker only while main() is suspended at an await *)
ConsumerMayRun == main_pc # "pool_shutdown"

(* the sentinel does not end the loop *)
GetItem_IgnoresSentinel ==
    /\ w_pc = "get"
    /\ ConsumerMayRun
    /\ db_worker_queue # << >>
    /\ db_worker_queue' = Tail(db_worker_queue)
    /\ timed_out' = FALSE
    /\ IF IsSentinel(Head(db_worker_queue))
       THEN /\ w_pc' = "get"
            /\ buffer' = buffer
       ELSE /\ buffer' = Append(buffer, Head(db_worker_queue))
            /\ w_pc' = IF Len(buffer) + 1 >= code_execution_control.db_bulk_insert_size
                       THEN "flush" ELSE "get"
    /\ UNCHANGED << flush_log, w_error, store, enqueued >>
    /\ UNCHANGED << inputVars, unitVars, pipeInputVars, mainVars, full_data, required_simulations,
                    planObsVars, keyVars >>

(* runner.py:53-65: an item arrives *)
GetItem ==
    /\ w_pc = "get"
    /\ ConsumerMayRun
    /\ db_worker_queue # << >>
    /\ db_worker_queue' = Tail(db_worker_queue)
    /\ timed_out' = FALSE
    /\ IF IsSentinel(Head(db_worker_queue))
       THEN /\ w_pc' = "final"
            /\ buffer' = buffer
       ELSE /\ buffer' = Append(buffer, Head(db_worker_queue))
            /\ w_pc' = IF Len(buffer) + 1 >= code_execution_control.db_bulk_insert_size
                       THEN "flush" ELSE "get"
    /\ UNCHANGED << flush_log, w_error, store, enqueued >>
    /\ UNCHANGED << inputVars, unitVars, pipeInputVars, mainVars, full_data, required_simulations,
                    planObsVars, keyVars >>

(* runner.py:54-57: wait_for times out on an empty queue *)
GetTimeout ==
    /\ w_pc = "get"
    /\ ConsumerMayRun
    /\ db_worker_queue = << >>
    /\ timed_out' = TRUE
    /\ UNCHANGED << w_pc, buffer, flush_log, w_error, store >>
    /\ UNCHANGED << inputVars, unitVars, pipeInputVars, mainVars, queueVars, full_data,
                    required_simulations, planObsVars, keyVars >>

(* the threshold flush leaves the inserted records in the buffer *)
Flush_KeepsBuffer ==
    /\ w_pc = "flush"
    /\ ConsumerMayRun
    /\ \E db_ok \in BOOLEAN :
         IF ~db_ok
         THEN /\ w_pc' = "failed"
              /\ w_error' = "OperationalError"
              /\ UNCHANGED << store, buffer, flush_log >>
         ELSE IF PrimaryKeyConflict(buffer, store)
         THEN /\ w_pc' = "failed"
              /\ w_error' = "IntegrityError"
              /\ UNCHANGED << store, buffer, flush_log >>
         ELSE /\ store' = store \cup { Row(buffer[i]) : i \in DOMAIN buffer }
              /\ flush_log' = Append(flush_log, buffer)
              /\ buffer' = buffer
              /\ w_pc' = "get"
              /\ w_error' = w_error
    /\ UNCHANGED timed_out
    /\ UNCHANGED << inputVars, unitVars, pipeInputVars, mainVars, queueVars, full_data,
                    required_simulations, planObsVars, keyVars >>

(* runner.py:67-73: the threshold flush; the insert may fail *)
Flush ==
    /\ w_pc = "flush"
    /\ ConsumerMayRun
    /\ \E db_ok \in BOOLEAN :
         IF ~db_ok
         THEN /\ w_pc' = "failed"
              /\ w_error' = "OperationalError"
              /\ UNCHANGED << store, buffer, flush_log >>
         ELSE IF PrimaryKeyConflict(buffer, store)
         THEN /\ w_pc' = "failed"
              /\ w_error' = "IntegrityError"
              /\ UNCHANGED << store, buffer, flush_log >>
         ELSE /\ store' = store \cup { Row(buffer[i]) : i \in DOMAIN buffer }
              /\ flush_log' = Append(flush_log, buffer)
              /\ buffer' = << >>
              /\ w_pc' = "get"
              /\ w_error' = w_error
    /\ UNCHANGED timed_out
    /\ UNCHANGED << inputVars, unitVars, pipeInputVars, mainVars, queueVars, full_data,
                    required_simulations, planObsVars, keyVars >>

(* the records still buffered at the sentinel are not inserted *)
FinalFlush_SkipsRemainder ==
    /\ w_pc = "final"
    /\ ConsumerMayRun
    /\ w_pc' = "done"
    /\ UNCHANGED << store, flush_log, w_error, buffer, timed_out >>
    /\ UNCHANGED << inputVars, unitVars, pipeInputVars, mainVars, queueVars, full_data,
                    required_simulations, planObsVars, keyVars >>

(* runner.py:75-86: after the sentinel, the remaining records *)
FinalFlush ==
    /\ w_pc = "final"
    /\ ConsumerMayRun
    /\ IF buffer = << >>
       THEN /\ w_pc' = "done"
            /\ UNCHANGED << store, flush_log, w_error >>
       ELSE \E db_ok \in BOOLEAN :
              IF ~db_ok
              THEN /\ w_pc' = "failed"
                   /\ w_error' = "OperationalError"
                   /\ UNCHANGED << store, flush_log >>
              ELSE IF PrimaryKeyConflict(buffer, store)
              THEN /\ w_pc' = "failed"
                   /\ w_error' = "IntegrityError"
                   /\ UNCHANGED << store, flush_log >>
              ELSE /\ store' = store \cup { Row(buffer[i]) : i \in DOMAIN buffer }
                   /\ flush_log' = Append(flush_log, buffer)
                   /\ w_pc' = "done"
                   /\ w_error' = w_error
    /\ UNCHANGED << buffer, timed_out >>
    /\ UNCHANGED << inputVars, unitVars, pipeInputVars, mainVars, queueVars, full_data,
                    required_simulations, planObsVars, keyVars >>

MainStep ==
    \/ CollectAndFetch
    \/ BuildAndDiff
    \/ AwaitBatch
    \/ PoolShutdown
    \/ PutResult
    \/ PutSentinel
    \/ AwaitConsumer

WorkerStep == \E b \in DOMAIN batch_status : WorkerCompletes(b)

ConsumerStep == GetItem \/ GetTimeout \/ Flush \/ FinalFlush

Next == MainStep \/ WorkerStep \/ ConsumerStep

Spec == Init /\ [][Next]_vars

(* fairness of the event loop (a ready coroutine is eventually resumed) and
   of the worker processes (a running batch eventually finishes) *)
Fairness ==
    /\ WF_vars(MainStep)
    /\ WF_vars(ConsumerStep)
    /\ WF_vars(WorkerStep)

SpecFair == Spec /\ Fairness

(* ======================================================================= *)
(* The consumer fed one batch of n results: SpecConsumer                   *)
(* main() has awaited the only batch of the only data config and is about  *)
(* to put its n results (main.py:161), or, for n = 0, to put the sentinel.  *)
(* ======================================================================= *)
ConsumerInit ==
    /\ \E n \in 0..MaxItems :
         LET bars == ExampleBars(n + 2)
             r == get_all_macd_setup(DataConfigOf("A"), EXECUTION_CONFIG, PipeGrid,
                                     PipeWindowConfigs, bars)
         IN /\ market = << bars >>
            /\ full_data = bars
            /\ required_simulations = r.out
            /\ missing_simulations = r.out
            /\ batches = IF n = 0 THEN << >> ELSE << batch_runner(r.out_list) >>
            /\ batch_status = IF n = 0 THEN << >> ELSE << "consumed" >>
            /\ batch_results = IF n = 0 THEN << >> ELSE batch_runner(r.out_list)
            /\ main_pc = IF n = 0 THEN "finally_put" ELSE "put"
            /\ \E c \in ControlConfigs :
                 code_execution_control =
                     [c EXCEPT !.simulation_batch_size = IF n = 0 THEN 1 ELSE n]
    /\ data_configs = << DataConfigOf("A") >>
    /\ dc_idx = 1
    /\ macd_params_grid = PipeGrid
    /\ macd_window_configs = PipeWindowConfigs
    /\ store = {}
    /\ existing_simulations = {}
    /\ completed = << >>
    /\ db_worker_queue = << >>
    /\ enqueued = << >>
    /\ w_pc = "get"
    /\ buffer = << >>
    /\ flush_log = << >>
    /\ timed_out = FALSE
    /\ w_error = "none"
    /\ plan_pc = "idle"
    /\ setup_calls = << >>
    /\ setup_error = FALSE
    /\ second_setup = {}
    /\ KeyIdle
    /\ UnitIdle

ConsumerNext ==
    \/ PutResult
    \/ PutSentinel
    \/ AwaitConsumer
    \/ GetItem
    \/ GetTimeout
    \/ Flush
    \/ FinalFlush

SpecConsumer == ConsumerInit /\ [][ConsumerNext]_vars

SpecConsumerFair ==
    /\ SpecConsumer
    /\ WF_vars(PutResult \/ PutSentinel \/ AwaitConsumer)
    /\ WF_vars(ConsumerStep)

(* ======================================================================= *)
(* The batches of one data config in flight: SpecDispatched                *)
(* main() has submitted the chunks of n missing tasks to the pool          *)
(* (main.py:144-157) and starts iterating as_completed (main.py:159).      *)
(* ======================================================================= *)
DispatchedInit ==
    /\ \E n \in 1..MaxDispatched :
         LET bars == ExampleBars(n + 2)
             r == get_all_macd_setup(DataConfigOf("A"), EXECUTION_CONFIG, PipeGrid,
                                     PipeWindowConfigs, bars)
         IN /\ market = << bars >>
            /\ full_data = bars
            /\ required_simulations = r.out
            /\ missing_simulations = r.out
            /\ \E c \in ControlConfigs :
                 /\ code_execution_control = c
                 /\ batches = chunked(r.out_list, c.simulation_batch_size)
                 /\ batch_status = [b \in DOMAIN batches |-> "running"]
    /\ batch_results = << >>
    /\ main_pc = "await_batch"
    /\ data_configs = << DataConfigOf("A") >>
    /\ dc_idx = 1
    /\ macd_params_grid = PipeGrid
    /\ macd_window_configs = PipeWindowConfigs
    /\ store = {}
    /\ existing_simulations = {}
    /\ completed = << >>
    /\ db_worker_queue = << >>
    /\ enqueued = << >>
    /\ w_pc = "get"
    /\ buffer = << >>
    /\ flush_log = << >>
    /\ timed_out = FALSE
    /\ w_error = "none"
    /\ plan_pc = "idle"
    /\ setup_calls = << >>
    /\ setup_error = FALSE
    /\ second_setup = {}
    /\ KeyIdle
    /\ UnitIdle

DispatchedMainStep ==
    \/ AwaitBatch
    \/ PoolShutdown
    \/ PutResult
    \/ PutSentinel
    \/ AwaitConsumer

DispatchedNext == DispatchedMainStep \/ WorkerStep \/ ConsumerStep

SpecDispatched == DispatchedInit /\ [][DispatchedNext]_vars

SpecDispatchedFair ==
    /\ SpecDispatched
    /\ WF_vars(DispatchedMainStep)
    /\ WF_vars(WorkerStep)
    /\ WF_vars(ConsumerStep)

(* ======================================================================= *)
(* config/config_loader.py: load_code_execution_control_config: SpecLoad   *)
(* ======================================================================= *)
(* raw.get('threads_to_use', None): << >> is None, << n >> a configured n *)
RawThreads == { << >> } \cup { << n >> : n \in 1..(MaxCpuCount + 1) }

(* the parsed code_execution_control.yaml *)
RawControlConfigs ==
    [simulation_batch_size : 1..MaxBatchSize,
     db_bulk_insert_size : 1..MaxBulkInsert,
     consumer_queue_size : 0..MaxQueueSize,
     threads_to_use : RawThreads]

load_code_execution_control_config(raw, cpus) ==
    LET threads_to_use ==
            IF raw.threads_to_use = << >> THEN cpus - 2
            ELSE IF raw.threads_to_use[1] > cpus THEN cpus - 2
            ELSE raw.threads_to_use[1]
    IN [simulation_batch_size |-> raw.simulation_batch_size,
        db_bulk_insert_size |-> raw.db_bulk_insert_size,
        threads_to_use |-> threads_to_use,
        consumer_queue_size |-> raw.consumer_queue_size]

LoadInit ==
    /\ load_pc = "start"
    /\ yaml_raw \in RawControlConfigs
    /\ cpu_count \in 1..MaxCpuCount
    /\ loaded_config = << >>
    /\ ParamsIdle
    /\ CodecIdle
    /\ PlanIdle
    /\ PipeIdle
    /\ KeyIdle
    /\ SignalIdle
    /\ SanitizeIdle
    /\ RunIdle

LoadConfig ==
    /\ load_pc = "start"
    /\ loaded_config' = load_code_execution_control_config(yaml_raw, cpu_count)
    /\ load_pc' = "loaded"
    /\ UNCHANGED << yaml_raw, cpu_count >>
    /\ UNCHANGED << paramsVars, codecVars, inputVars, planVars, keyVars, pipeVars,
                    signalVars, sanitizeVars, runVars >>

LoadNext == LoadConfig

SpecLoad == LoadInit /\ [][LoadNext]_vars

(* ======================================================================= *)
(* MACDParams, iter_valid_macd_params, calculate_warmup_period: SpecParams *)
(* ======================================================================= *)
ExampleTriples ==
    { [fast |-> 12, slow |-> 26, signal |-> 9],
      [fast |-> 26, slow |-> 12, signal |-> 9],
      [fast |-> 12, slow |-> 26, signal |-> 30] }

(* the arguments of a construction: any integers *)
Candidates ==
    [fast : -1..MaxPeriod, slow : -1..MaxPeriod, signal : -1..MaxPeriod] \cup ExampleTriples

(* a period list of macd_params.yaml: one or two entries, repeats allowed *)
GridPeriodLists == UNION { [1..k -> 0..MaxGridPeriod] : k \in 1..2 }

ParamGrids ==
    [fast_periods : GridPeriodLists, slow_periods : GridPeriodLists,
     signal_periods : GridPeriodLists]

ExampleGrid == [fast_periods |-> << 12, 26 >>, slow_periods |-> << 26, 12 >>,
                signal_periods |-> << 9, 30 >>]

ParamsInit ==
    /\ params_pc = "start"
    /\ \/ candidate \in Candidates /\ macd_params_grid = ExampleGrid
       \/ candidate = [fast |-> 12, slow |-> 26, signal |-> 9] /\ macd_params_grid \in ParamGrids
    /\ construct_result = << >>
    /\ yielded = << >>
    /\ warmup_result = 0
    /\ data_configs = << >>
    /\ macd_window_configs = << >>
    /\ full_data = << >>
    /\ required_simulations = {}
    /\ plan_pc = "idle"
    /\ setup_calls = << >>
    /\ setup_error = FALSE
    /\ second_setup = {}
    /\ LoadIdle
    /\ CodecIdle
    /\ PipeIdle
    /\ KeyIdle
    /\ SignalIdle
    /\ SanitizeIdle
    /\ RunIdle

(* MACDParams(fast=..., slow=..., signal=...) *)
Construct ==
    /\ params_pc = "start"
    /\ construct_result' = MACDParams(candidate.fast, candidate.slow, candidate.signal)
    /\ params_pc' = "constructed"
    /\ UNCHANGED << candidate, yielded, warmup_result >>
    /\ UNCHANGED << loadVars, codecVars, inputVars, planVars, keyVars, pipeVars,
                    signalVars, sanitizeVars, runVars >>

(* list(iter_valid_macd_params(macd_params_grid)) *)
IterValid ==
    /\ params_pc = "constructed"
    /\ yielded' = iter_valid_macd_params(macd_params_grid)
    /\ params_pc' = "iterated"
    /\ UNCHANGED << candidate, construct_result, warmup_result >>
    /\ UNCHANGED << loadVars, codecVars, inputVars, planVars, keyVars, pipeVars,
                    signalVars, sanitizeVars, runVars >>

(* calculate_warmup_period of the constructed triple *)
Warmup ==
    /\ params_pc = "iterated"
    /\ ~construct_result.raised
    /\ warmup_result' = calculate_warmup_period(construct_result.params)
    /\ params_pc' = "done"
    /\ UNCHANGED << candidate, construct_result, yielded >>
    /\ UNCHANGED << loadVars, codecVars, inputVars, planVars, keyVars, pipeVars,
                    signalVars, sanitizeVars, runVars >>

ParamsNext == Construct \/ IterValid \/ Warmup

SpecParams == ParamsInit /\ [][ParamsNext]_vars

(* ======================================================================= *)
(* strategies/extract.py: extract_metrics, reconstruct_metrics: SpecCodec  *)
(*                                                                         *)
(* A Python value is a record [type, cls, num].  The numeric value of a    *)
(* float, an int or a duration in seconds is num * 10^-9: num counts       *)
(* nanoseconds, so datetime.timedelta holds multiples of 1000 and          *)
(* pandas.Timedelta any integer.  cls tells a finite float from NaN and    *)
(* the infinities.                                                         *)
(* ======================================================================= *)
CORE_METRICS ==
    ("Total Return [%]" :> "total_return_pct") @@
    ("Benchmark Return [%]" :> "benchmark_return_pct") @@
    ("Sharpe Ratio" :> "sharpe") @@
    ("Calmar Ratio" :> "calmar") @@
    ("Sortino Ratio" :> "sortino") @@
    ("Omega Ratio" :> "omega") @@
    ("Max Drawdown [%]" :> "max_dd_pct") @@
    ("Max Drawdown Duration" :> "max_dd_duration") @@
    ("Win Rate [%]" :> "win_rate_pct") @@
    ("Profit Factor" :> "profit_factor") @@
    ("Expectancy" :> "expectancy") @@
    ("Total Trades" :> "total_trades") @@
    ("Total Fees Paid" :> "total_fees_paid")

Aliases == { CORE_METRICS[name] : name \in DOMAIN CORE_METRICS }

NameOf(alias) == CHOOSE name \in DOMAIN CORE_METRICS : CORE_METRICS[name] = alias

PyNone == [type |-> "none", cls |-> "none", num |-> 0]

PyFloat(cls, num) == [type |-> "float", cls |-> cls, num |-> num]

PyTimedelta(num) == [type |-> "timedelta", cls |-> "finite", num |-> num]

(* round(n / d) to the nearest integer, ties to even (d > 0) *)
RoundHalfEven(n, d) ==
    LET q == n \div d
        r == n % d
    IN IF 2 * r < d THEN q
       ELSE IF 2 * r > d THEN q + 1
       ELSE IF q % 2 = 0 THEN q ELSE q + 1

(* float(raw): an int or a float converts, anything else here raises *)
float_of(raw) ==
    IF raw.type \in {"float", "int"}
    THEN [raised |-> FALSE, value |-> PyFloat(raw.cls, raw.num)]
    ELSE [raised |-> TRUE, value |-> PyNone]

(* raw.total_seconds() *)
total_seconds(raw) == PyFloat("finite", raw.num)

(* timedelta(seconds=value): microsecond resolution, round-half-even *)
timedelta_of_seconds(value) == PyTimedelta(RoundHalfEven(value.num, 1000) * 1000)

(* every infinity is encoded as pos_inf *)
InfKind_SignLost(value) == "pos_inf"

(* extract.py:90 *)
InfKind(value) == IF value.cls = "pos_inf" THEN "pos_inf" ELSE "neg_inf"

(* extract.py:68-97, one pass of the loop: the value slot and the kind slot *)
extract_metric(alias, raw) ==
    IF raw = PyNone
    THEN [value |-> PyNone, kind |-> "missing"]
    ELSE LET conv == IF alias = "max_dd_duration" /\ raw.type \in {"pd_timedelta", "timedelta"}
                     THEN [raised |-> FALSE, value |-> total_seconds(raw)]
                     ELSE float_of(raw)
         IN IF conv.raised THEN [value |-> PyNone, kind |-> "invalid"]
            ELSE IF conv.value.cls = "nan" THEN [value |-> PyNone, kind |-> "nan"]
            ELSE IF conv.value.cls \in {"pos_inf", "neg_inf"}
                 THEN [value |-> PyNone, kind |-> InfKind(conv.value)]
            ELSE [value |-> conv.value, kind |-> "value"]

(* stats.get(name, None) *)
StatsGet(st, name) == IF name \in DOMAIN st THEN st[name] ELSE PyNone

(* the keys of the encoded dict: << alias, "value" >> stands for the key
   alias and << alias, "kind" >> for the key alias + "_kind" *)
ValueKey(alias) == << alias, "value" >>

KindKey(alias) == << alias, "kind" >>

(* extract.py:96-97 only writes the value slot *)
extract_metrics_NoKindSlot(st) ==
    [k \in Aliases \X {"value"} |-> extract_metric(k[1], StatsGet(st, NameOf(k[1]))).value]

extract_metrics(st) ==
    [k \in Aliases \X {"value", "kind"} |->
        LET e == extract_metric(k[1], StatsGet(st, NameOf(k[1])))
        IN IF k[2] = "value" THEN e.value ELSE e.kind]

Kinds == { "value", "pos_inf", "neg_inf", "nan", "missing", "invalid" }

(* the keys reconstruct_metrics visits: those not ending in "_kind" *)
ValueAliases(enc) == { k[1] : k \in { j \in DOMAIN enc : j[2] = "value" } }

(* value and encoded.get(f"{key}_kind", "value") *)
EncodedPair(enc, alias) ==
    [value |-> enc[ValueKey(alias)],
     kind |-> IF KindKey(alias) \in DOMAIN enc THEN enc[KindKey(alias)] ELSE "value"]

(* extract.py:137-158: whether result[key] is assigned *)
ReconstructSets(e, drop) ==
    CASE e.kind = "value" -> e.value # PyNone
      [] e.kind \in {"pos_inf", "neg_inf", "nan"} -> TRUE
      [] OTHER -> ~drop

(* a lost metric decodes to 0.0 *)
reconstruct_metric_ZeroDefault(key, e) ==
    CASE e.kind = "value" ->
            IF key = "max_dd_duration" THEN timedelta_of_seconds(e.value)
            ELSE PyFloat(e.value.cls, e.value.num)
      [] e.kind = "pos_inf" -> PyFloat("pos_inf", 0)
      [] e.kind = "neg_inf" -> PyFloat("neg_inf", 0)
      [] e.kind = "nan" -> PyFloat("nan", 0)
      [] OTHER -> PyFloat("finite", 0)

(* extract.py:137-158: the value assigned to result[key] *)
reconstruct_metric(key, e) ==
    CASE e.kind = "value" ->
            IF key = "max_dd_duration" THEN timedelta_of_seconds(e.value)
            ELSE PyFloat(e.value.cls, e.value.num)
      [] e.kind = "pos_inf" -> PyFloat("pos_inf", 0)
      [] e.kind = "neg_inf" -> PyFloat("neg_inf", 0)
      [] e.kind = "nan" -> PyFloat("nan", 0)
      [] OTHER -> PyNone

(* an unknown kind is decoded like missing *)
reconstruct_metrics_UnknownAsMissing(enc, drop) ==
    [raised |-> FALSE,
     result |-> [key \in { a \in ValueAliases(enc) : ReconstructSets(EncodedPair(enc, a), drop) } |->
                   reconstruct_metric(key, EncodedPair(enc, key))]]

(* extract.py:128-160: ValueError at the first key whose kind is unknown,
   otherwise the result dict *)
reconstruct_metrics(enc, drop) ==
    IF \E a \in ValueAliases(enc) : EncodedPair(enc, a).kind \notin Kinds
    THEN [raised |-> TRUE, result |-> << >>]
    ELSE [raised |-> FALSE,
          result |-> [key \in { a \in ValueAliases(enc) :
                                  ReconstructSets(EncodedPair(enc, a), drop) } |->
                        reconstruct_metric(key, EncodedPair(enc, key))]]

(* numeric values: multiples of half a microsecond, and 1.5 *)
CodecNums == { 500 * k : k \in -1..MaxHalfMicros } \cup { 1500000000 }

RawValues ==
    { PyFloat("finite", n) : n \in CodecNums }
      \cup { PyFloat("nan", 0), PyFloat("pos_inf", 0), PyFloat("neg_inf", 0) }
      \cup { [type |-> "int", cls |-> "finite", num |-> n] : n \in { 0, 1000000000 } }
      \cup { PyTimedelta(n) : n \in { m \in CodecNums : m >= 0 /\ m % 1000 = 0 } }
      \cup { [type |-> "pd_timedelta", cls |-> "finite", num |-> n] :
                n \in { m \in CodecNums : m >= 0 } }
      \cup { [type |-> "str", cls |-> "text", num |-> 0], PyNone }

(* the metrics the stats of a run may carry here: a ratio and the duration *)
StatNames == { "Sharpe Ratio", "Max Drawdown Duration" }

CodecInit ==
    /\ codec_pc = "start"
    /\ stats \in UNION { [D -> RawValues] : D \in SUBSET StatNames }
    /\ drop_unrecoverable \in BOOLEAN
    /\ encoded = << >>
    /\ decoded = << >>
    /\ LoadIdle
    /\ ParamsIdle
    /\ PlanIdle
    /\ PipeIdle
    /\ KeyIdle
    /\ SignalIdle
    /\ SanitizeIdle
    /\ RunIdle

Extract ==
    /\ codec_pc = "start"
    /\ encoded' = extract_metrics(stats)
    /\ codec_pc' = "encoded"
    /\ UNCHANGED << stats, drop_unrecoverable, decoded >>
    /\ UNCHANGED << loadVars, paramsVars, inputVars, planVars, keyVars, pipeVars,
                    signalVars, sanitizeVars, runVars >>

Reconstruct ==
    /\ codec_pc = "encoded"
    /\ decoded' = reconstruct_metrics(encoded, drop_unrecoverable)
    /\ codec_pc' = "decoded"
    /\ UNCHANGED << stats, drop_unrecoverable, encoded >>
    /\ UNCHANGED << loadVars, paramsVars, inputVars, planVars, keyVars, pipeVars,
                    signalVars, sanitizeVars, runVars >>

CodecNext == Extract \/ Reconstruct

SpecCodec == CodecInit /\ [][CodecNext]_vars

(***************************************************************************)
(* reconstruct_metrics on a stored encoding: any dict of value slots and   *)
(* kind slots, not only one extract_metrics has written.                   *)
(***************************************************************************)

(* the aliases of the stored encodings enumerated here *)
StoredAliases == { "sharpe", "max_dd_duration" }

(* a float column holds a finite number or NULL *)
StoredValues == { PyNone, PyFloat("finite", 0), PyFloat("finite", 1500000000) }

(* a kind column holds any string *)
StoredKinds == Kinds \cup { "bogus" }

StoredEncodings ==
    { [k \in D |-> IF k[2] = "value" THEN v[k[1]] ELSE t[k[1]]] :
        D \in SUBSET (StoredAliases \X {"value", "kind"}),
        v \in [StoredAliases -> StoredValues],
        t \in [StoredAliases -> StoredKinds] }

DecodeInit ==
    /\ codec_pc = "encoded"
    /\ stats = << >>
    /\ drop_unrecoverable \in BOOLEAN
    /\ encoded \in StoredEncodings
    /\ decoded = << >>
    /\ LoadIdle
    /\ ParamsIdle
    /\ PlanIdle
    /\ PipeIdle
    /\ KeyIdle
    /\ SignalIdle
    /\ SanitizeIdle
    /\ RunIdle

DecodeNext == Reconstruct

SpecDecode == DecodeInit /\ [][DecodeNext]_vars

(***************************************************************************)
(* strategies/macd/signals.py: generate_MACD_histogram_sign_flip_signals.  *)
(* A pandas Series is a sequence of records [index, value].  The histogram *)
(* is a float series over the index of the closes, the result of three     *)
(* exponential averages; the signals read nothing of it but the order of   *)
(* its values against 0, so its values are drawn from -1, 0 and 1.         *)
(***************************************************************************)
MaxSignalBars == 4

(* the bars of a call: consecutive timestamps, a close each *)
SignalBars(n) == [i \in 1..n |-> [timestamp |-> i - 1, close |-> 100 + i]]

(* constructed MACDParams: signal < slow, and a signal below 1 is accepted *)
SignalParams ==
    { c \in [fast : 1..2, slow : 2..3, signal : 0..2] : ValidMACDParams(c.fast, c.slow, c.signal) }

(* close = pd.Series([md.close ...], index=[md.timestamp ...]) *)
CloseSeries(data) == [i \in DOMAIN data |-> [index |-> data[i].timestamp, value |-> data[i].close]]

HistogramValues == { PyFloat("finite", n) : n \in {-1, 0, 1} }

(* the float series macd_line - signal_line can be, over the index of close *)
Histograms(close) ==
    { [i \in DOMAIN close |-> [index |-> close[i].index, value |-> h[i]]] :
        h \in [DOMAIN close -> HistogramValues] }

(* ewm(span=...) raises ValueError unless span >= 1 *)
EwmRaises(params) == params.fast < 1 \/ params.slow < 1 \/ params.signal < 1

(* the series compared with itself *)
Shift1_NoShift(series) == series

(* series.shift(1): every value one position later, NaN at the first *)
Shift1(series) ==
    [i \in DOMAIN series |->
        [index |-> series[i].index,
         value |-> IF i = 1 THEN PyFloat("nan", 0) ELSE series[i - 1].value]]

(* float comparisons: False whenever an operand is NaN *)
FloatLt(x, n) == x.cls = "finite" /\ x.num < n

FloatGt(x, n) == x.cls = "finite" /\ x.num > n

FloatGe(x, n) == x.cls = "finite" /\ x.num >= n

FloatLe(x, n) == x.cls = "finite" /\ x.num <= n

(* signals.py:42: (macd_histogram.shift(1) < 0) & (macd_histogram >= 0) *)
EntrySignals(hist) ==
    LET prev == Shift1(hist)
    IN [i \in DOMAIN hist |->
          [index |-> hist[i].index,
           value |-> FloatLt(prev[i].value, 0) /\ FloatGe(hist[i].value, 0)]]

(* signals.py:43: (macd_histogram.shift(1) > 0) & (macd_histogram <= 0) *)
ExitSignals(hist) ==
    LET prev == Shift1(hist)
    IN [i \in DOMAIN hist |->
          [index |-> hist[i].index,
           value |-> FloatGt(prev[i].value, 0) /\ FloatLe(hist[i].value, 0)]]

(* series[k:], a positional slice: empty when k >= len(series), the last -k
   elements when k < 0 *)
SliceFrom(series, k) ==
    LET n == Len(series)
        first == IF k >= 0 THEN (IF k < n THEN k ELSE n)
                 ELSE (IF n + k > 0 THEN n + k ELSE 0)
    IN SubSeq(series, first + 1, n)

(* signals.py:30-50 after the histogram is computed *)
generate_MACD_histogram_sign_flip_signals(data, params, hist, cut) ==
    LET close == CloseSeries(data)
        entry_signals == EntrySignals(hist)
        exit_signals == ExitSignals(hist)
        warmup_period == calculate_warmup_period(params)
    IN IF cut
       THEN [entry_signals |-> SliceFrom(entry_signals, warmup_period),
             exit_signals |-> SliceFrom(exit_signals, warmup_period),
             simulation_period |-> SliceFrom(close, warmup_period)]
       ELSE [entry_signals |-> entry_signals,
             exit_signals |-> exit_signals,
             simulation_period |-> close]

SignalInit ==
    /\ signal_pc = "start"
    /\ \E n \in 0..MaxSignalBars : market_data = SignalBars(n)
    /\ signal_params \in SignalParams
    /\ cut_warmup_period \in BOOLEAN
    /\ macd_histogram = << >>
    /\ signal_result = << >>
    /\ LoadIdle
    /\ ParamsIdle
    /\ CodecIdle
    /\ SanitizeIdle
    /\ RunIdle
    /\ PlanIdle
    /\ PipeIdle
    /\ KeyIdle

(* signals.py:30-39: the closes and the three exponential averages *)
ComputeHistogram ==
    /\ signal_pc = "start"
    /\ IF EwmRaises(signal_params)
       THEN /\ signal_pc' = "raised"
            /\ macd_histogram' = macd_histogram
       ELSE /\ signal_pc' = "histogram"
            /\ macd_histogram' \in Histograms(CloseSeries(market_data))
    /\ UNCHANGED << market_data, signal_params, cut_warmup_period, signal_result >>
    /\ UNCHANGED << loadVars, paramsVars, codecVars, sanitizeVars, runVars,
                    inputVars, planVars, keyVars, pipeVars >>

(* signals.py:41-50 *)
GenerateSignals ==
    /\ signal_pc = "histogram"
    /\ signal_result' = generate_MACD_histogram_sign_flip_signals(
                            market_data, signal_params, macd_histogram, cut_warmup_period)
    /\ signal_pc' = "returned"
    /\ UNCHANGED << market_data, signal_params, cut_warmup_period, macd_histogram >>
    /\ UNCHANGED << loadVars, paramsVars, codecVars, sanitizeVars, runVars,
                    inputVars, planVars, keyVars, pipeVars >>

SignalNext == ComputeHistogram \/ GenerateSignals

SpecSignals == SignalInit /\ [][SignalNext]_vars

(***************************************************************************)
(* One worker process running batch_runner on one dispatched batch         *)
(* (runner.py:24-30, 108-131): SpecWorker.  batch_results holds            *)
(* result_batch, market_data the extended_period of the last simulation,   *)
(* signal_result what generate_MACD_histogram_sign_flip_signals returned.  *)
(***************************************************************************)
WorkerBars(ts) == [i \in DOMAIN ts |-> [timestamp |-> ts[i], close |-> 100 + i]]

(* consecutive daily bars, and a history with gaps *)
WorkerTimestamps ==
    { [i \in 1..n |-> i - 1] : n \in 0..MaxBars } \cup { << 0, 1, 2, 4, 7 >> }

WorkerGrids ==
    { [fast_periods |-> << 1 >>, slow_periods |-> << 2, 3 >>, signal_periods |-> << 1 >>],
      [fast_periods |-> << 1, 2 >>, slow_periods |-> << 2, 3 >>, signal_periods |-> << 1, 2 >>] }

WorkerWindowConfigs ==
    { << [window_size |-> 2, window_shift |-> 1] >>,
      << [window_size |-> 1, window_shift |-> 2] >> }

(* a batch: at most simulation_batch_size distinct tasks of the missing set *)
BatchesOf(missing) ==
    UNION { { f \in [1..k -> missing] :
                \A i \in 1..k : \A j \in 1..k : i # j => f[i] # f[j] } :
            k \in 1..MaxBatchSize }

(* the slice starts at the first bar *)
extended_period_FromFirstBar(sim, bars) ==
    SubSeq(bars, 1, IF sim.end_idx = NoneIdx THEN Len(bars) ELSE sim.end_idx)

(* runner.py:108-110: full_data[start_idx:end_idx]; a None bound is the
   end of the list on its side *)
extended_period(sim, bars) ==
    SubSeq(bars,
           (IF sim.start_idx = NoneIdx THEN 0 ELSE sim.start_idx) + 1,
           IF sim.end_idx = NoneIdx THEN Len(bars) ELSE sim.end_idx)

WorkerInit ==
    /\ data_configs = << DataConfigOf("A") >>
    /\ dc_idx = 1
    /\ macd_params_grid \in WorkerGrids
    /\ macd_window_configs \in WorkerWindowConfigs
    /\ \E ts \in WorkerTimestamps : full_data = WorkerBars(ts)
    /\ LET r == get_all_macd_setup(data_configs[1], EXECUTION_CONFIG, macd_params_grid,
                                   macd_window_configs, full_data)
       IN /\ ~r.raised
          /\ required_simulations = r.out
          /\ existing_simulations
                \in { {} } \cup { { Row(run_single_simulation_for_MACD(t)) } : t \in r.out }
    /\ missing_simulations = SetDifference(required_simulations, existing_simulations)
    /\ \E batch \in BatchesOf(missing_simulations) : batches = << batch >>
    /\ batch_status = << "running" >>
    /\ batch_results = << >>
    /\ completed = << >>
    /\ main_pc = "await_batch"
    /\ code_execution_control = << >>
    /\ market = << >>
    /\ store = {}
    /\ db_worker_queue = << >>
    /\ enqueued = << >>
    /\ w_pc = "idle"
    /\ buffer = << >>
    /\ flush_log = << >>
    /\ timed_out = FALSE
    /\ w_error = "none"
    /\ plan_pc = "idle"
    /\ setup_calls = << >>
    /\ setup_error = FALSE
    /\ second_setup = {}
    /\ signal_pc = "idle"
    /\ market_data = << >>
    /\ signal_params = << >>
    /\ cut_warmup_period = TRUE
    /\ macd_histogram = << >>
    /\ signal_result = << >>
    /\ KeyIdle
    /\ LoadIdle
    /\ ParamsIdle
    /\ CodecIdle
    /\ SanitizeIdle
    /\ RunIdle

(* runner.py:26-28: the next sim of the batch goes through
   _run_single_simulation_for_MACD (lines 108-131) and is appended *)
RunSimulation ==
    /\ batch_status = << "running" >>
    /\ Len(batch_results) < Len(batches[1])
    /\ LET sim == batches[1][Len(batch_results) + 1]
           period == extended_period(sim, full_data)
           constructed == MACDParams(sim.fast_period, sim.slow_period, sim.signal_period)
       IN IF constructed.raised \/ EwmRaises(constructed.params)
          THEN /\ batch_status' = << "failed" >>
               /\ completed' = << 1 >>
               /\ UNCHANGED << batch_results, market_data, signal_params, signal_result,
                               signal_pc >>
          ELSE /\ market_data' = period
               /\ signal_params' = constructed.params
               /\ \E hist \in Histograms(CloseSeries(period)) :
                     signal_result' =
                        [simulation_period |->
                            generate_MACD_histogram_sign_flip_signals(
                                period, constructed.params, hist, TRUE).simulation_period]
               /\ signal_pc' = "returned"
               /\ batch_results' = Append(batch_results, run_single_simulation_for_MACD(sim))
               /\ UNCHANGED << batch_status, completed >>
    /\ UNCHANGED << batches, main_pc, dc_idx, full_data, required_simulations,
                    existing_simulations, missing_simulations, store,
                    cut_warmup_period, macd_histogram >>
    /\ UNCHANGED << inputVars, loadVars, paramsVars, codecVars, sanitizeVars, runVars,
                    pipeInputVars, queueVars, workerVars, planObsVars, keyVars >>

(* runner.py:30: return result_batch; the future of the batch completes *)
BatchReturns ==
    /\ batch_status = << "running" >>
    /\ Len(batch_results) = Len(batches[1])
    /\ batches' = << batch_results >>
    /\ batch_status' = << "done" >>
    /\ completed' = << 1 >>
    /\ UNCHANGED << batch_results, main_pc, dc_idx, full_data, required_simulations,
                    existing_simulations, missing_simulations, store >>
    /\ UNCHANGED << inputVars, unitVars, pipeInputVars, queueVars, workerVars,
                    planObsVars, keyVars >>

WorkerNext == RunSimulation \/ BatchReturns

SpecWorker == WorkerInit /\ [][WorkerNext]_vars

(***************************************************************************)
(* main.py:50-85, sanitize_simulation_period_start_date: SpecSanitize.     *)
(* data_configs is DATA_CONFIGS and macd_window_configs is                 *)
(* MACD_WINDOW_CONFIGS; datetimes and timedeltas are integers.             *)
(***************************************************************************)
MaxDate == 5

MaxSanitizeWindowConfigs == 2

DatedConfig(asset, td, start_date, end_date) ==
    [source |-> "yfinance", asset |-> asset, timeframe |-> "1d", timeframe_td |-> td,
     start_date |-> start_date, end_date |-> end_date]

(* the entries of data_config.yaml: a start date not after the end date *)
DatedConfigs ==
    { dc \in { DatedConfig("A", td, sd, ed) :
                 td \in 1..2, sd \in 0..MaxDate, ed \in 0..MaxDate } :
        dc.start_date <= dc.end_date }

SanitizeWindowConfigLists ==
    UNION { [1..n -> WindowConfigs] : n \in 0..MaxSanitizeWindowConfigs }

(* one back shift too many *)
aligned_start_OneMoreShift(data_config, macd_window_config) ==
    LET base_start == data_config.start_date
        base_end == data_config.end_date
        total_samples == (base_end - base_start) \div data_config.timeframe_td
        last_window_start ==
            base_end - (data_config.timeframe_td * macd_window_config.window_size)
        shift_td == data_config.timeframe_td * macd_window_config.window_shift
        max_back_shifts == ((last_window_start - base_start) \div shift_td) + 1
    IN IF total_samples < macd_window_config.window_size
       THEN base_end
       ELSE last_window_start - (max_back_shifts * shift_td)

(* main.py:61-70: aligned_start of one window config *)
aligned_start(data_config, macd_window_config) ==
    LET base_start == data_config.start_date
        base_end == data_config.end_date
        total_samples == (base_end - base_start) \div data_config.timeframe_td
        last_window_start ==
            base_end - (data_config.timeframe_td * macd_window_config.window_size)
        shift_td == data_config.timeframe_td * macd_window_config.window_shift
        max_back_shifts == (last_window_start - base_start) \div shift_td
    IN IF total_samples < macd_window_config.window_size
       THEN base_end
       ELSE last_window_start - (max_back_shifts * shift_td)

(* main.py:58-73: max_aligned_start after the loop over the window configs *)
max_aligned_start(data_config, window_configs) ==
    SeqMax(<< data_config.start_date >>
             \o [w \in DOMAIN window_configs |-> aligned_start(data_config, window_configs[w])])

(* main.py:75-85: the entry of DATA_CONFIGS after the loop body *)
sanitized(data_config, window_configs) ==
    LET start == max_aligned_start(data_config, window_configs)
    IN IF start # data_config.start_date
       THEN DatedConfig(data_config.asset, data_config.timeframe_td, start,
                        data_config.end_date)
       ELSE data_config

SanitizeInit ==
    /\ sanitize_pc = "start"
    /\ \/ \E dc \in DatedConfigs : data_configs = << dc >>
       \/ data_configs = << DatedConfig("A", 1, 0, 5), DatedConfig("B", 2, 1, 4) >>
    /\ original_data_configs = data_configs
    /\ macd_window_configs \in SanitizeWindowConfigLists
    /\ macd_params_grid = << >>
    /\ full_data = << >>
    /\ required_simulations = {}
    /\ plan_pc = "idle"
    /\ setup_calls = << >>
    /\ setup_error = FALSE
    /\ second_setup = {}
    /\ LoadIdle
    /\ ParamsIdle
    /\ CodecIdle
    /\ SignalIdle
    /\ RunIdle
    /\ PipeIdle
    /\ KeyIdle

Sanitize ==
    /\ sanitize_pc = "start"
    /\ data_configs' = [i \in DOMAIN data_configs |->
                          sanitized(data_configs[i], macd_window_configs)]
    /\ sanitize_pc' = "done"
    /\ UNCHANGED << macd_params_grid, macd_window_configs, original_data_configs >>
    /\ UNCHANGED << planVars, keyVars, pipeVars, loadVars, paramsVars, codecVars,
                    signalVars, runVars >>

SanitizeNext == Sanitize

SpecSanitize == SanitizeInit /\ [][SanitizeNext]_vars

(***************************************************************************)
(* main() run a second time over the same configuration, bars and store,   *)
(* after a first run in which no worker and no insert failed: SpecRerun.   *)
(***************************************************************************)

(* main.py:119-125 as CollectAndFetch, remembering the data configs the
   first run skipped *)
RerunCollectAndFetch ==
    /\ main_pc = "collect"
    /\ \E outcome \in CollectOutcomes :
         IF outcome = "ok"
         THEN /\ full_data' = market[dc_idx]
              /\ existing_simulations' =
                   get_macd_histogram_sign_flip_simulations(store, data_configs[dc_idx])
              /\ main_pc' = "diff"
              /\ dc_idx' = dc_idx
              /\ skipped' = skipped
         ELSE /\ NextDataConfig
              /\ skipped' = IF runs_done = 0 THEN skipped \cup { dc_idx } ELSE skipped
              /\ UNCHANGED << full_data, existing_simulations >>
    /\ UNCHANGED << required_simulations, missing_simulations, batches, batch_status,
                    completed, batch_results, store >>
    /\ UNCHANGED << runs_done, first_run >>
    /\ UNCHANGED << inputVars, loadVars, paramsVars, codecVars, signalVars, sanitizeVars,
                    pipeInputVars, queueVars, workerVars, planObsVars, keyVars >>

WorkerFailed == \E b \in DOMAIN batch_status : batch_status[b] = "failed"

(* main() has returned without a worker or an insert failing, and is called
   again: a new queue, a new db_worker task, the loop from the first data
   config; the store and the bars are what they were *)
Restart ==
    /\ main_pc = "done"
    /\ runs_done = 0
    /\ ~WorkerFailed
    /\ w_pc = "done"
    /\ runs_done' = 1
    /\ first_run' = [store |-> store, skipped |-> skipped]
    /\ main_pc' = IF Len(data_configs) = 0 THEN "finally_put" ELSE "collect"
    /\ dc_idx' = IF Len(data_configs) = 0 THEN 0 ELSE 1
    /\ full_data' = << >>
    /\ required_simulations' = {}
    /\ existing_simulations' = {}
    /\ missing_simulations' = {}
    /\ batches' = << >>
    /\ batch_status' = << >>
    /\ completed' = << >>
    /\ batch_results' = << >>
    /\ db_worker_queue' = << >>
    /\ enqueued' = << >>
    /\ w_pc' = "get"
    /\ buffer' = << >>
    /\ flush_log' = << >>
    /\ timed_out' = FALSE
    /\ w_error' = "none"
    /\ UNCHANGED << store, skipped >>
    /\ UNCHANGED << inputVars, loadVars, paramsVars, codecVars, signalVars, sanitizeVars,
                    pipeInputVars, planObsVars, keyVars >>

RerunMainStep ==
    \/ RerunCollectAndFetch
    \/ BuildAndDiff
    \/ AwaitBatch
    \/ PoolShutdown
    \/ PutResult
    \/ PutSentinel
    \/ AwaitConsumer
    \/ Restart

RerunNext == RerunMainStep \/ WorkerStep \/ ConsumerStep

SpecRerun == Init /\ [][RerunNext]_vars

(* ----------------------- properties of SpecPlan ------------------------ *)
Built == plan_pc \in {"built", "rebuilt"}

EmittedTasks == UNION { Range(setup_calls[c].result.out) : c \in DOMAIN setup_calls }

OutList == Flatten([c \in DOMAIN setup_calls |-> setup_calls[c].result.out])

(* the idx values the backward walk can visit: total, total - shift, ... *)
WalkIdx(window_config) ==
    { idx \in 0..Len(full_data) :
        \E j \in 0..Len(full_data) : idx = Len(full_data) - j * window_config.window_shift }

EmittedEndIdx(c) == { t.end_idx : t \in Range(setup_calls[c].result.out) }

ExampleSetup(total_bars) ==
    get_macd_setup_for_params(DataConfigOf("A"), EXECUTION_CONFIG,
        [fast |-> 12, slow |-> 26, signal |-> 9],
        [window_size |-> 50, window_shift |-> 10],
        ExampleBars(total_bars),
        calculate_max_warmup_period([fast_periods |-> << 12 >>, slow_periods |-> << 26 >>,
                                     signal_periods |-> << 9 >>]))

(* C1: every task emitted by get_all_macd_setup / _get_macd__setup_for_params
   has start_idx >= 0 and end_idx <= len(full_data); with 100 bars, window
   size 50, shift 10 and warm-up 34 the first window is (16, 100). *)
C1_StartIdxNonNegative ==
    /\ Built => \A t \in EmittedTasks \cup required_simulations :
                   t.start_idx >= 0 /\ t.end_idx <= Len(full_data)
    /\ plan_pc = "built" =>
       LET r == ExampleSetup(100)
       IN /\ ~r.raised
          /\ r.out[1].start_idx = 16
          /\ r.out[1].end_idx = 100

C1_Witness ==
    /\ plan_pc = "built"
    /\ \E t \in required_simulations : t.start_idx = 0
    /\ \E t \in required_simulations : t.start_idx > 0 /\ t.end_idx = Len(full_data)

(* C2 as claimed: for each triple the walk emits exactly the idx of
   {total, total - shift, ...} with idx >= warmup + window_size, warmup being
   the triple's own slow + signal - 1. *)
C2_StopsAtOwnWarmup ==
    Built => \A c \in DOMAIN setup_calls :
        EmittedEndIdx(c) =
            { idx \in WalkIdx(setup_calls[c].window_config) :
                idx >= calculate_warmup_period(setup_calls[c].macd_params)
                         + setup_calls[c].window_config.window_size }

(* C2 amended: for each triple the walk starts at idx = total_bars, emits
   (start_idx = idx - window_size - own warmup, end_idx = idx), decreases idx
   by window_shift and stops once idx <= max_warmup + window_size - 1, where
   max_warmup = max(slow_periods) + max(signal_periods) - 1 of the grid. *)
C2_StopsAtMaxWarmup ==
    Built => \A c \in DOMAIN setup_calls :
        LET wc == setup_calls[c].window_config
            out == setup_calls[c].result.out
            warmup == setup_calls[c].macd_params.slow + setup_calls[c].macd_params.signal - 1
            max_warmup == SeqMax(macd_params_grid.slow_periods)
                            + SeqMax(macd_params_grid.signal_periods) - 1
        IN /\ ~setup_calls[c].result.raised
           /\ EmittedEndIdx(c) = { idx \in WalkIdx(wc) : idx >= max_warmup + wc.window_size }
           /\ \A k \in DOMAIN out :
                 /\ out[k].end_idx = Len(full_data) - (k - 1) * wc.window_shift
                 /\ out[k].start_idx = out[k].end_idx - wc.window_size - warmup

C2_Witness ==
    /\ plan_pc = "built"
    /\ \E c \in DOMAIN setup_calls :
         LET wc == setup_calls[c].window_config
             warmup == calculate_warmup_period(setup_calls[c].macd_params)
         IN /\ Len(setup_calls[c].result.out) >= 2
            /\ \E idx \in WalkIdx(wc) :
                  /\ idx >= warmup + wc.window_size
                  /\ idx \notin EmittedEndIdx(c)

(* C3: when the bar history is shorter than window size plus warm-up,
   building the task set raises the insufficient-history error instead of
   returning a truncated or empty result. *)
C3_InsufficientHistoryRaises ==
    (/\ Built
     /\ \E c \in DOMAIN setup_calls :
          Len(full_data) < setup_calls[c].window_config.window_size
                             + calculate_warmup_period(setup_calls[c].macd_params))
    => setup_error

(* C4: every built task has start_date = full_data[start_idx + warmup].timestamp
   and end_date = full_data[end_idx - 1].timestamp + timeframe_delta, warmup
   being the task's slow_period + signal_period - 1, and both positions exist
   in full_data (0-based start_idx + warmup and end_idx - 1). *)
C4_DatesFromIndices ==
    Built => \A t \in required_simulations :
        LET warmup == t.slow_period + t.signal_period - 1
            first == t.start_idx + warmup
            last == t.end_idx - 1
        IN /\ 0 <= first /\ first < Len(full_data)
           /\ 0 <= last /\ last < Len(full_data)
           /\ t.start_date = full_data[first + 1].timestamp
           /\ t.end_date = full_data[last + 1].timestamp + data_configs[1].timeframe_td

C4_Witness ==
    /\ plan_pc = "built"
    /\ \E t \in required_simulations :
         /\ t.start_idx > 0
         /\ t.start_date # t.start_idx + t.slow_period + t.signal_period - 1
         /\ t.end_date > t.start_date + 1

(* C5: the set returned by get_all_macd_setup holds no two distinct elements
   with the same 13-field composite key, and a second invocation with the
   same inputs returns a set of the same cardinality and the same keys. *)
C5_TrueSet ==
    /\ Built => /\ \A x \in required_simulations : \A y \in required_simulations :
                     CompositeKey(x) = CompositeKey(y) => x = y
                /\ { CompositeKey(t) : t \in required_simulations }
                     = { CompositeKey(OutList[i]) : i \in DOMAIN OutList }
    /\ plan_pc = "rebuilt" =>
         /\ Cardinality(second_setup) = Cardinality(required_simulations)
         /\ { CompositeKey(t) : t \in second_setup }
              = { CompositeKey(t) : t \in required_simulations }

C5_Witness ==
    /\ plan_pc = "rebuilt"
    /\ Cardinality(required_simulations) >= 2
    /\ \E i \in DOMAIN OutList : \E j \in DOMAIN OutList :
         /\ CompositeKey(OutList[i]) = CompositeKey(OutList[j])
         /\ OutList[i].start_idx # OutList[j].start_idx

(* ------------------------ properties of SpecKey ------------------------ *)
SameKey(a, b) == \A f \in KeyFields : a[f] = b[f]

(* C6: two tasks are equal, and have equal hashes, if and only if they agree
   on all 13 composite-key fields; metrics, run_timestamp, start_idx and
   end_idx never affect equality or hash. *)
C6_IdentityIsCompositeKey ==
    key_pc = "hashed" =>
        /\ eq_result <=> SameKey(task_a, task_b)
        /\ SameKey(task_a, task_b) => hash_a = hash_b
        /\ (eq_result /\ hash_a = hash_b) <=> SameKey(task_a, task_b)

C6_Witness ==
    /\ key_pc = "hashed"
    /\ eq_result
    /\ hash_a = hash_b
    /\ task_a.metrics # task_b.metrics
    /\ task_a.start_idx # task_b.start_idx

(* ------------------------- properties of Spec -------------------------- *)
KeysOf(S) == { CompositeKey(t) : t \in S }

Dispatched == UNION { Range(batches[b]) : b \in DOMAIN batches }

C7_MissingSet ==
    main_pc # "diff" =>
        /\ missing_simulations \subseteq required_simulations
        /\ KeysOf(missing_simulations)
             = KeysOf(required_simulations) \ KeysOf(existing_simulations)
        /\ main_pc \in {"await_batch", "put", "pool_shutdown"} =>
              KeysOf(Dispatched) = KeysOf(missing_simulations)

C7_ExistingIsPersisted ==
    (main_pc = "collect" /\ main_pc' = "diff") =>
        /\ \A r \in store :
              (r.asset = data_configs[dc_idx].asset
                 /\ r.timeframe = data_configs[dc_idx].timeframe)
              <=> r \in existing_simulations'
        /\ existing_simulations' \subseteq store

C7_DiffFrame ==
    (main_pc = "diff" /\ main_pc' # "diff") =>
        /\ store' = store
        /\ existing_simulations' = existing_simulations

(* C7: for every data config the missing set dispatched to the workers is
   required minus existing under composite-key equality, existing being the
   rows persisted for that asset/timeframe when fetched; the result does
   not depend on the iteration order, and computing it changes neither the
   existing set nor the store. *)
C7_MissingIsRequiredMinusExisting ==
    /\ []C7_MissingSet
    /\ [][C7_ExistingIsPersisted]_vars
    /\ [][C7_DiffFrame]_vars

C7_Witness ==
    /\ main_pc = "await_batch"
    /\ Cardinality(required_simulations) = 3
    /\ Cardinality(existing_simulations) = 1
    /\ Cardinality(missing_simulations) = 2
    /\ KeysOf(existing_simulations) \subseteq KeysOf(required_simulations)

(* ---------------------- properties of SpecConsumer --------------------- *)
(* C8: if n results are enqueued followed by the sentinel and no flush
   fails, db_worker performs exactly ceil(n / db_bulk_insert_size) bulk
   inserts, every item is persisted exactly once (n rows), and the remainder
   is flushed on the sentinel before the consumer exits. *)
C8_FlushCount ==
    w_pc = "done" =>
        LET n == Len(enqueued)
            size == code_execution_control.db_bulk_insert_size
        IN /\ Len(flush_log) = (n + size - 1) \div size
           /\ Flatten(flush_log) = enqueued
           /\ \A k \in DOMAIN flush_log :
                 IF k < Len(flush_log) THEN Len(flush_log[k]) = size
                 ELSE Len(flush_log[k]) = n - (k - 1) * size
           /\ Cardinality(store) = n
           /\ \A i \in DOMAIN enqueued :
                 \E r \in store : CompositeKey(r) = CompositeKey(enqueued[i])

C8_Witness ==
    /\ w_pc = "done"
    /\ main_pc = "done"
    /\ Len(enqueued) = 5
    /\ code_execution_control.db_bulk_insert_size = 2
    /\ Len(flush_log) = 3
    /\ Len(flush_log[3]) = 1

(* C9: when a flush raises inside the consumer, the consumer task ends and
   the orchestrator does not hang: its remaining puts and its await of the
   consumer task eventually complete, whatever the queue capacity. *)
C9_NoHangAfterFlushFailure == (w_pc = "failed") ~> (main_pc = "done")

(* C10: a flush whose batch contains a composite key already in the store
   ignores the conflicting row and persists the remaining rows; it never
   raises and never overwrites the stored row. *)
C10_ConflictIgnored ==
    [][ (/\ w_pc \in {"flush", "final"}
         /\ w_pc' # w_pc
         /\ buffer # << >>
         /\ \E i \in DOMAIN buffer : CompositeKey(buffer[i]) \in KeysOf(store)
         /\ w_error' # "OperationalError")
        => (/\ w_pc' # "failed"
            /\ store \subseteq store'
            /\ KeysOf(store') = KeysOf(store) \cup KeysOf(Range(buffer))
            /\ Cardinality(store') = Cardinality(KeysOf(store'))) ]_vars

(* C11: back-pressure.  With a positive capacity the queue never holds more
   than consumer_queue_size items, and the queue changes only by the
   consumer taking its head or by a put that appends one item to a queue
   that is not full: nothing is dropped or overwritten. *)
C11_QueueBounded ==
    code_execution_control.consumer_queue_size > 0 =>
        Len(db_worker_queue) <= code_execution_control.consumer_queue_size

C11_QueueStep ==
    db_worker_queue' # db_worker_queue =>
        \/ /\ db_worker_queue # << >>
           /\ db_worker_queue' = Tail(db_worker_queue)
        \/ /\ Len(db_worker_queue') = Len(db_worker_queue) + 1
           /\ SubSeq(db_worker_queue', 1, Len(db_worker_queue)) = db_worker_queue
           /\ code_execution_control.consumer_queue_size > 0 =>
                 Len(db_worker_queue) < code_execution_control.consumer_queue_size

C11_BackPressure == []C11_QueueBounded /\ [][C11_QueueStep]_vars

C11_Witness ==
    /\ main_pc = "put"
    /\ batch_results # << >>
    /\ code_execution_control.consumer_queue_size = 2
    /\ Len(db_worker_queue) = 2

(* ------------------- properties of SpecDispatchedFair ------------------ *)
AfterLoop == { "pool_shutdown", "finally_put", "await_consumer", "done" }

C12_EnqueuedPersisted ==
    w_pc = "done" => \A i \in DOMAIN enqueued : Row(enqueued[i]) \in store

C12_OnlyEnqueuedPersisted ==
    \A r \in store : r = EarlierRow \/ \E i \in DOMAIN enqueued : r = Row(enqueued[i])

C12_NoRetry ==
    main_pc \in AfterLoop =>
        /\ main_pc' \in AfterLoop
        /\ enqueued' = enqueued
        /\ DOMAIN batches' = DOMAIN batches
        /\ dc_idx' = dc_idx

(* C12: when an exception escapes the processing loop (a batch raised), the
   orchestrator still puts the sentinel and awaits the consumer, and, unless
   a flush fails, the consumer ends with every enqueued result persisted;
   only enqueued results are ever persisted and nothing is dispatched or
   enqueued after the exception. *)
C12_ExceptionStillDrains ==
    /\ []C12_EnqueuedPersisted
    /\ []C12_OnlyEnqueuedPersisted
    /\ [][C12_NoRetry]_vars
    /\ (main_pc = "pool_shutdown") ~>
           (w_pc = "failed" \/ (main_pc = "done" /\ w_pc = "done"))

C12_Witness ==
    /\ main_pc = "done"
    /\ w_pc = "done"
    /\ \E b \in DOMAIN batch_status : batch_status[b] = "failed"
    /\ enqueued # << >>
    /\ \A i \in DOMAIN enqueued : Row(enqueued[i]) \in store
    /\ \E t \in missing_simulations : CompositeKey(t) \notin KeysOf(store)

(* ------------------------- properties of Spec -------------------------- *)
(* C13: when one batch raises, every other batch that completed
   successfully still has its results enqueued and persisted. *)
C13_OtherBatchesPersisted ==
    (main_pc = "done" /\ w_pc = "done") =>
        \A b \in DOMAIN batch_status :
            batch_status[b] # "failed" =>
                \A i \in DOMAIN batches[b] : CompositeKey(batches[b][i]) \in KeysOf(store)

C14_Skipped ==
    (main_pc = "collect" /\ (main_pc' = "finally_put" \/ dc_idx' # dc_idx)) =>
        /\ UNCHANGED << batches, batch_status, enqueued, store, missing_simulations >>
        /\ IF dc_idx < Len(data_configs)
           THEN main_pc' = "collect" /\ dc_idx' = dc_idx + 1
           ELSE main_pc' = "finally_put" /\ dc_idx' = dc_idx

(* C14: when collect_data or the existing-results fetch fails for a data
   config, nothing is dispatched, enqueued or persisted for it and the
   orchestrator goes on to the next data config (to the sentinel after the
   last one). *)
C14_FailedConfigSkipped == [][C14_Skipped]_vars

C14_Witness ==
    /\ dc_idx = 2
    /\ main_pc = "await_batch"
    /\ store = {}
    /\ enqueued = << >>
    /\ batches # << >>
    /\ missing_simulations # {}

(* C15: the batches are a partition of the missing set into chunks of
   simulation_batch_size = n: ceil(|missing| / n) batches, each of 1..n
   tasks, all but the last of exactly n, every missing task in exactly one
   batch. *)
C15_BatchesPartitionMissing ==
    main_pc \in {"await_batch", "put", "pool_shutdown"} =>
        LET n == code_execution_control.simulation_batch_size
            m == Cardinality(missing_simulations)
            all == Flatten(batches)
        IN /\ Len(batches) = (m + n - 1) \div n
           /\ \A b \in DOMAIN batches :
                 /\ Len(batches[b]) >= 1
                 /\ Len(batches[b]) <= n
                 /\ b < Len(batches) => Len(batches[b]) = n
           /\ Len(all) = m
           /\ KeysOf(Range(all)) = KeysOf(missing_simulations)
           /\ \A i \in DOMAIN all : \A j \in DOMAIN all :
                 i # j => CompositeKey(all[i]) # CompositeKey(all[j])

C15_Witness ==
    /\ main_pc = "await_batch"
    /\ code_execution_control.simulation_batch_size = 2
    /\ Len(batches) = 2
    /\ Len(batches[1]) = 2
    /\ Len(batches[2]) = 1

(* ------------------------ properties of SpecLoad ----------------------- *)
(* C16: whenever cpu_count - 2 is positive, the loaded threads_to_use is at
   most cpu_count - 2, whatever threads_to_use the file configures. *)
C16_ThreadsWithinHeadroom ==
    (load_pc = "loaded" /\ cpu_count - 2 > 0) =>
        loaded_config.threads_to_use <= cpu_count - 2

(* ----------------------- properties of SpecParams ---------------------- *)
(* C17: construction succeeds iff 0 < fast < slow and signal < slow, and
   every constructed triple has three positive periods. *)
C17_ConstructionIffInvariant ==
    params_pc # "start" =>
        /\ ~construct_result.raised <=>
              (0 < candidate.fast /\ candidate.fast < candidate.slow
                 /\ candidate.signal < candidate.slow)
        /\ ~construct_result.raised =>
              (candidate.fast > 0 /\ candidate.slow > 0 /\ candidate.signal > 0)

GridIdx ==
    (DOMAIN macd_params_grid.fast_periods) \X (DOMAIN macd_params_grid.slow_periods)
        \X (DOMAIN macd_params_grid.signal_periods)

TripleAt(t) ==
    [fast |-> macd_params_grid.fast_periods[t[1]],
     slow |-> macd_params_grid.slow_periods[t[2]],
     signal |-> macd_params_grid.signal_periods[t[3]]]

ValidIdx ==
    { t \in GridIdx :
        /\ 0 < TripleAt(t).fast
        /\ TripleAt(t).fast < TripleAt(t).slow
        /\ TripleAt(t).signal < TripleAt(t).slow }

LexLess(a, b) ==
    \/ a[1] < b[1]
    \/ a[1] = b[1] /\ a[2] < b[2]
    \/ a[1] = b[1] /\ a[2] = b[2] /\ a[3] < b[3]

(* C18: iter_valid_macd_params yields the valid triples of the product, one
   per position of the product, in fast-outer / slow-middle / signal-inner
   order, and nothing else. *)
C18_ValidTriplesInOrder ==
    params_pc \in {"iterated", "done"} =>
        /\ Len(yielded) = Cardinality(ValidIdx)
        /\ \A t \in ValidIdx :
              yielded[Cardinality({ u \in ValidIdx : LexLess(u, t) }) + 1] = TripleAt(t)

C18_Witness ==
    /\ params_pc = "iterated"
    /\ Len(yielded) = 2
    /\ yielded[1] = yielded[2]
    /\ Cardinality(GridIdx) = 4
    /\ \E t \in GridIdx : TripleAt(t).signal >= TripleAt(t).slow

(* C19: calculate_warmup_period returns slow + signal - 1 for every valid
   triple; slow = 26 and signal = 9 give 34. *)
C19_WarmupFormula ==
    params_pc = "done" =>
        /\ warmup_result = candidate.slow + candidate.signal - 1
        /\ (candidate.slow = 26 /\ candidate.signal = 9) => warmup_result = 34

C19_Witness ==
    /\ params_pc = "done"
    /\ candidate = [fast |-> 12, slow |-> 26, signal |-> 9]
    /\ warmup_result = 34

(* ------------------------ properties of SpecCodec ---------------------- *)
IsNumber(v) == v.type \in {"float", "int"}

IsDuration(v) == v.type \in {"timedelta", "pd_timedelta"}

(* Python's a == b between these values, NaN compared by is-NaN *)
SameValue(a, b) ==
    IF IsNumber(a) /\ a.cls = "nan" THEN IsNumber(b) /\ b.cls = "nan"
    ELSE \/ IsNumber(a) /\ IsNumber(b) /\ a.cls = b.cls /\ a.num = b.num
         \/ IsDuration(a) /\ IsDuration(b) /\ a.num = b.num

Decoded(name) == decoded.result[CORE_METRICS[name]]

(* C20 as stated: every tracked metric whose raw value is a number (finite,
   NaN or infinite) is returned as that same value. *)
C20_EveryNumberRoundTrips ==
    codec_pc = "decoded" =>
        /\ ~decoded.raised
        /\ \A name \in DOMAIN stats :
              IsNumber(stats[name]) =>
                 /\ CORE_METRICS[name] \in DOMAIN decoded.result
                 /\ SameValue(stats[name], Decoded(name))

(* C20: the round trip returns the same value for a number held by any
   metric other than the duration, and for NaN and the infinities held by
   the duration; a finite duration (a number of seconds or a time delta) is
   returned as a time delta of that many seconds rounded to a whole
   microsecond, which equals a raw time delta of whole microseconds. *)
C20_RoundTrip ==
    codec_pc = "decoded" =>
        /\ ~decoded.raised
        /\ \A name \in DOMAIN stats :
              LET raw == stats[name]
                  alias == CORE_METRICS[name]
              IN /\ (IsNumber(raw) \/ (alias = "max_dd_duration" /\ IsDuration(raw))) =>
                       alias \in DOMAIN decoded.result
                 /\ (IsNumber(raw) /\ (alias # "max_dd_duration" \/ raw.cls # "finite")) =>
                       SameValue(raw, Decoded(name))
                 /\ (alias = "max_dd_duration" /\ raw.cls = "finite") =>
                       /\ Decoded(name).type = "timedelta"
                       /\ Decoded(name).num % 1000 = 0
                       /\ 2 * (Decoded(name).num - raw.num) <= 1000
                       /\ 2 * (raw.num - Decoded(name).num) <= 1000
                       /\ (IsDuration(raw) /\ raw.num % 1000 = 0) =>
                             SameValue(raw, Decoded(name))

C20_Witness ==
    /\ codec_pc = "decoded"
    /\ DOMAIN stats = StatNames
    /\ stats["Sharpe Ratio"] = PyFloat("neg_inf", 0)
    /\ Decoded("Sharpe Ratio") = PyFloat("neg_inf", 0)
    /\ stats["Max Drawdown Duration"] = PyTimedelta(1500000000)
    /\ EncodedPair(encoded, "max_dd_duration")
          = [value |-> PyFloat("finite", 1500000000), kind |-> "value"]
    /\ Decoded("Max Drawdown Duration") = PyTimedelta(1500000000)

(***************************************************************************)
(* C21: for every stats dictionary, extract_metrics writes for each        *)
(* tracked alias both the value slot and the kind slot, the kind is one of *)
(* the six kinds, and the value slot is non-null exactly when the kind is  *)
(* value.                                                                  *)
(***************************************************************************)
C21_BothSlots ==
    codec_pc \in {"encoded", "decoded"} =>
        /\ DOMAIN encoded = Aliases \X {"value", "kind"}
        /\ \A alias \in Aliases :
              /\ encoded[KindKey(alias)]
                    \in {"value", "pos_inf", "neg_inf", "nan", "missing", "invalid"}
              /\ (encoded[ValueKey(alias)] # PyNone) <=> (encoded[KindKey(alias)] = "value")

C21_Witness ==
    /\ codec_pc = "encoded"
    /\ DOMAIN stats = {"Sharpe Ratio"}
    /\ stats["Sharpe Ratio"].type = "str"
    /\ encoded[KindKey("sharpe")] = "invalid"
    /\ encoded[ValueKey("sharpe")] = PyNone
    /\ encoded[KindKey("max_dd_duration")] = "missing"

(***************************************************************************)
(* C22: a tracked metric absent from the stats is encoded as missing, and  *)
(* a metric of kind missing or invalid decodes to null, or is left out of  *)
(* the result when drop_unrecoverable is set; it never decodes to a        *)
(* number.                                                                 *)
(***************************************************************************)
C22_LossyKindsDecodeToNull ==
    /\ codec_pc \in {"encoded", "decoded"} =>
          \A name \in DOMAIN CORE_METRICS :
              name \notin DOMAIN stats => encoded[KindKey(CORE_METRICS[name])] = "missing"
    /\ codec_pc = "decoded" =>
          /\ ~decoded.raised
          /\ \A alias \in Aliases :
                encoded[KindKey(alias)] \in {"missing", "invalid"} =>
                    IF drop_unrecoverable
                    THEN alias \notin DOMAIN decoded.result
                    ELSE /\ alias \in DOMAIN decoded.result
                         /\ decoded.result[alias] = PyNone

C22_Witness ==
    /\ codec_pc = "decoded"
    /\ ~drop_unrecoverable
    /\ DOMAIN stats = {"Max Drawdown Duration"}
    /\ stats["Max Drawdown Duration"].type = "str"
    /\ encoded[KindKey("sharpe")] = "missing"
    /\ encoded[KindKey("max_dd_duration")] = "invalid"
    /\ decoded.result["sharpe"] = PyNone
    /\ decoded.result["max_dd_duration"] = PyNone

(***************************************************************************)
(* C23: when the kind slot of an encoded metric holds a tag outside the    *)
(* six kinds, reconstruct_metrics raises, whatever drop_unrecoverable is,  *)
(* and returns nothing.                                                    *)
(***************************************************************************)
HasUnknownKind ==
    \E alias \in StoredAliases :
        /\ ValueKey(alias) \in DOMAIN encoded
        /\ KindKey(alias) \in DOMAIN encoded
        /\ encoded[KindKey(alias)]
              \notin {"value", "pos_inf", "neg_inf", "nan", "missing", "invalid"}

C23_UnknownKindIsFatal ==
    (codec_pc = "decoded" /\ HasUnknownKind) =>
        /\ decoded.raised
        /\ decoded.result = << >>

C23_Witness ==
    /\ codec_pc = "decoded"
    /\ drop_unrecoverable
    /\ DOMAIN encoded = StoredAliases \X {"value", "kind"}
    /\ encoded[KindKey("sharpe")] = "value"
    /\ encoded[ValueKey("sharpe")] = PyFloat("finite", 1500000000)
    /\ encoded[KindKey("max_dd_duration")] = "bogus"
    /\ decoded.raised

(***************************************************************************)
(* C24: at every bar t the entry signal is set exactly when the histogram  *)
(* was below 0 at t-1 and is at or above 0 at t, the exit signal exactly   *)
(* when it was above 0 at t-1 and is at or below 0 at t; the first bar     *)
(* carries neither and no bar carries both; the three returned series      *)
(* share their index.  With the warm-up cut they hold the bars after the   *)
(* first warmup ones.                                                      *)
(***************************************************************************)
SignalOffset ==
    IF cut_warmup_period
    THEN (IF calculate_warmup_period(signal_params) < Len(market_data)
          THEN calculate_warmup_period(signal_params) ELSE Len(market_data))
    ELSE 0

HistAt(t) == macd_histogram[t].value.num

C24_SignFlips ==
    \A j \in DOMAIN signal_result.entry_signals :
        LET t == j + SignalOffset
        IN /\ signal_result.entry_signals[j].value
                 <=> (t > 1 /\ HistAt(t - 1) < 0 /\ HistAt(t) >= 0)
           /\ signal_result.exit_signals[j].value
                 <=> (t > 1 /\ HistAt(t - 1) > 0 /\ HistAt(t) <= 0)
           /\ t = 1 => (~signal_result.entry_signals[j].value
                           /\ ~signal_result.exit_signals[j].value)
           /\ ~(signal_result.entry_signals[j].value /\ signal_result.exit_signals[j].value)

C24_IndexAligned ==
    /\ Len(signal_result.exit_signals) = Len(signal_result.entry_signals)
    /\ Len(signal_result.simulation_period) = Len(signal_result.entry_signals)
    /\ \A j \in DOMAIN signal_result.entry_signals :
          /\ signal_result.entry_signals[j].index = market_data[j + SignalOffset].timestamp
          /\ signal_result.exit_signals[j].index = market_data[j + SignalOffset].timestamp
          /\ signal_result.simulation_period[j].index = market_data[j + SignalOffset].timestamp
          /\ signal_result.simulation_period[j].value = market_data[j + SignalOffset].close

(* the statement as given: the cut series have length len(bars) - warmup *)
C24_CutLengthIsDifference ==
    signal_pc = "returned" =>
        /\ C24_SignFlips
        /\ C24_IndexAligned
        /\ cut_warmup_period =>
              Len(signal_result.entry_signals)
                 = Len(market_data) - calculate_warmup_period(signal_params)

(* C24 as amended: with the warm-up cut the three series have length
   len(bars) - warmup when there are at least warmup bars, and are empty
   otherwise; without the cut they have the length of the bars; the signals
   follow the sign flips of the histogram and the series share their index. *)
C24_Signals ==
    signal_pc = "returned" =>
        /\ C24_SignFlips
        /\ C24_IndexAligned
        /\ Len(signal_result.entry_signals) =
              IF ~cut_warmup_period THEN Len(market_data)
              ELSE IF Len(market_data) >= calculate_warmup_period(signal_params)
                   THEN Len(market_data) - calculate_warmup_period(signal_params)
                   ELSE 0

C24_Witness ==
    /\ signal_pc = "returned"
    /\ cut_warmup_period
    /\ signal_params = [fast |-> 1, slow |-> 2, signal |-> 1]
    /\ Len(market_data) = 4
    /\ [t \in 1..4 |-> HistAt(t)] = << 0, -1, 1, 0 >>
    /\ Len(signal_result.entry_signals) = 2
    /\ signal_result.entry_signals[1].value
    /\ ~signal_result.exit_signals[1].value
    /\ signal_result.exit_signals[2].value
    /\ signal_result.simulation_period[1].index = 2

(***************************************************************************)
(* C25: inside the loop of the persistence consumer the flushed batches    *)
(* are consecutive segments of the receipt order; every threshold flush    *)
(* holds exactly db_bulk_insert_size items and leaves the buffer empty;    *)
(* between iterations the buffer is shorter than db_bulk_insert_size; a    *)
(* get that times out changes neither the buffer nor the store.            *)
(***************************************************************************)
QueuedResults == { i \in DOMAIN db_worker_queue : ~IsSentinel(db_worker_queue[i]) }

(* the results db_worker has taken from the queue, in the order of receipt *)
Received == SubSeq(enqueued, 1, Len(enqueued) - Cardinality(QueuedResults))

C25_Segments ==
    /\ Len(Flatten(flush_log)) <= Len(Received)
    /\ Flatten(flush_log) = SubSeq(Received, 1, Len(Flatten(flush_log)))
    /\ w_pc \in {"get", "flush", "final"} => Flatten(flush_log) \o buffer = Received
    /\ w_pc = "get" => Len(buffer) < code_execution_control.db_bulk_insert_size

C25_ThresholdFlush ==
    (w_pc = "flush" /\ flush_log' # flush_log) =>
        /\ Len(buffer) = code_execution_control.db_bulk_insert_size
        /\ flush_log' = Append(flush_log, buffer)
        /\ buffer' = << >>

C25_Timeout ==
    (w_pc = "get" /\ db_worker_queue = << >> /\ db_worker_queue' = << >>) =>
        /\ buffer' = buffer
        /\ store' = store

EndIdxOf(call) == { call.result.out[k].end_idx : k \in DOMAIN call.result.out }

WindowsOf(call) ==
    { << call.result.out[k].start_date, call.result.out[k].end_date >> :
        k \in DOMAIN call.result.out }

C26_WindowsIndependentOfTriple ==
    (plan_pc \in {"built", "rebuilt"} /\ ~setup_error) =>
        /\ \A c \in DOMAIN setup_calls :
              \A k \in DOMAIN setup_calls[c].result.out :
                 LET t == setup_calls[c].result.out[k]
                     region == t.end_idx - setup_calls[c].window_config.window_size
                 IN /\ t.start_idx + (setup_calls[c].macd_params.slow
                                        + setup_calls[c].macd_params.signal - 1) = region
                    /\ region >= calculate_max_warmup_period(macd_params_grid)
                    /\ t.start_date = full_data[region + 1].timestamp
        /\ \A w \in DOMAIN macd_window_configs :
              \A i \in DOMAIN iter_valid_macd_params(macd_params_grid) :
                 \E c \in DOMAIN setup_calls :
                    /\ setup_calls[c].window_config = macd_window_configs[w]
                    /\ setup_calls[c].macd_params = iter_valid_macd_params(macd_params_grid)[i]
        /\ \A c \in DOMAIN setup_calls : \A d \in DOMAIN setup_calls :
              setup_calls[c].window_config = setup_calls[d].window_config =>
                 /\ EndIdxOf(setup_calls[c]) = EndIdxOf(setup_calls[d])
                 /\ WindowsOf(setup_calls[c]) = WindowsOf(setup_calls[d])

C26_Witness ==
    /\ plan_pc = "built"
    /\ ~setup_error
    /\ Len(full_data) = 5
    /\ Len(setup_calls) = 2
    /\ setup_calls[1].macd_params = [fast |-> 1, slow |-> 2, signal |-> 1]
    /\ setup_calls[2].macd_params = [fast |-> 1, slow |-> 3, signal |-> 1]
    /\ setup_calls[1].window_config = [window_size |-> 1, window_shift |-> 1]
    /\ EndIdxOf(setup_calls[1]) = {4, 5}
    /\ EndIdxOf(setup_calls[2]) = {4, 5}

(***************************************************************************)
(* C27: every task dispatched to a worker has start_idx and end_idx set;   *)
(* full_data[start_idx:end_idx] without its warm-up prefix is exactly      *)
(* window_size bars, the first at the task's start_date and the last one   *)
(* timeframe before its end_date; the worker returns the batch with the    *)
(* same length, order and composite keys, only the metrics changed.        *)
(***************************************************************************)
C27_Populated ==
    batch_status = << "running" >> =>
        \A i \in DOMAIN batches[1] :
            /\ batches[1][i].start_idx # NoneIdx
            /\ batches[1][i].end_idx # NoneIdx
            /\ 0 <= batches[1][i].start_idx
            /\ batches[1][i].start_idx < batches[1][i].end_idx
            /\ batches[1][i].end_idx <= Len(full_data)

C27_SimulatedWindow ==
    (batch_status = << "running" >> /\ batch_results # << >>) =>
        LET sim == batches[1][Len(batch_results)]
            period == signal_result.simulation_period
        IN /\ market_data = SubSeq(full_data, sim.start_idx + 1, sim.end_idx)
           /\ Len(period) = macd_window_configs[1].window_size
           /\ period[1].index = sim.start_date
           /\ period[Len(period)].index + data_configs[1].timeframe_td = sim.end_date
           /\ \A j \in DOMAIN period :
                 period[j].index
                    = full_data[sim.end_idx - macd_window_configs[1].window_size + j].timestamp

C27_ReturnStep ==
    (batch_status = << "running" >> /\ batch_status' = << "done" >>) =>
        /\ Len(batches'[1]) = Len(batches[1])
        /\ \A i \in DOMAIN batches[1] :
              /\ CompositeKey(batches'[1][i]) = CompositeKey(batches[1][i])
              /\ batches'[1][i].metrics # batches[1][i].metrics
              /\ [batches'[1][i] EXCEPT !.metrics = batches[1][i].metrics] = batches[1][i]
        /\ batches'[1] = batch_runner(batches[1])

C27_WorkerContract ==
    [](C27_Populated /\ C27_SimulatedWindow) /\ [][C27_ReturnStep]_vars

C27_Witness ==
    /\ batch_status = << "done" >>
    /\ Len(batches[1]) = 2
    /\ full_data = WorkerBars(<< 0, 1, 2, 4, 7 >>)
    /\ macd_window_configs[1].window_size = 2
    /\ batches[1][2].start_idx = 0
    /\ batches[1][2].end_idx = 5
    /\ batches[1][2].slow_period = 3
    /\ batches[1][2].metrics = "filled"
    /\ Len(market_data) = 5
    /\ Len(signal_result.simulation_period) = 2
    /\ signal_result.simulation_period[1].index = 4
    /\ signal_result.simulation_period[2].index = 7
    /\ batches[1][2].end_date = 8
    /\ batches[1][1].slow_period = 2
    /\ batches[1][1].start_idx = 1

(***************************************************************************)
(* C30: after sanitize_simulation_period_start_date every data config      *)
(* starts no earlier than before and ends where it did, and for every      *)
(* window config the start lies on a whole-window boundary: end -          *)
(* window_size * timeframe - start is a non-negative multiple of           *)
(* window_shift * timeframe, or start = end.                               *)
(***************************************************************************)
OnWindowBoundary(dc, wc) ==
    LET d == dc.end_date - wc.window_size * dc.timeframe_td - dc.start_date
    IN \/ d >= 0 /\ d % (wc.window_shift * dc.timeframe_td) = 0
       \/ dc.start_date = dc.end_date

StartOnlyLater(i) ==
    /\ data_configs[i].start_date >= original_data_configs[i].start_date
    /\ data_configs[i].end_date = original_data_configs[i].end_date
    /\ [data_configs[i] EXCEPT !.start_date = original_data_configs[i].start_date]
          = original_data_configs[i]

(* the statement as given: the boundary holds for every window config *)
C30_EveryWindowConfigAligned ==
    sanitize_pc = "done" =>
        \A i \in DOMAIN data_configs :
            /\ StartOnlyLater(i)
            /\ \A w \in DOMAIN macd_window_configs :
                  OnWindowBoundary(data_configs[i], macd_window_configs[w])

(* C30 as amended: the start becomes the latest of the original start and
   the aligned starts of the window configs; the boundary holds for every
   window config whose own aligned start is that latest one, which is the
   case of a single window config; the start is not earlier than the aligned
   start of any other window config. *)
C30_LatestAlignedStart ==
    sanitize_pc = "done" =>
        \A i \in DOMAIN data_configs :
            /\ StartOnlyLater(i)
            /\ macd_window_configs = << >> =>
                  data_configs[i] = original_data_configs[i]
            /\ \A w \in DOMAIN macd_window_configs :
                  LET own == aligned_start(original_data_configs[i], macd_window_configs[w])
                  IN /\ data_configs[i].start_date >= own
                     /\ data_configs[i].start_date = own =>
                           OnWindowBoundary(data_configs[i], macd_window_configs[w])
            /\ Len(macd_window_configs) = 1 =>
                  OnWindowBoundary(data_configs[i], macd_window_configs[1])
            /\ macd_window_configs # << >> =>
                  \E w \in DOMAIN macd_window_configs :
                     OnWindowBoundary(data_configs[i], macd_window_configs[w])

C30_Witness ==
    /\ sanitize_pc = "done"
    /\ original_data_configs = << DatedConfig("A", 1, 0, 5) >>
    /\ macd_window_configs = << [window_size |-> 1, window_shift |-> 2],
                                [window_size |-> 2, window_shift |-> 2] >>
    /\ data_configs = << DatedConfig("A", 1, 1, 5) >>

(***************************************************************************)
(* C28: after a run in which no worker and no flush failed, a second run   *)
(* over the same bars, grid, window configs and store computes an empty    *)
(* missing set for every data config, dispatches no batch, enqueues only   *)
(* the sentinel and leaves the result store unchanged.                     *)
(***************************************************************************)
SecondRunIdle ==
    /\ missing_simulations = {}
    /\ batches = << >>
    /\ main_pc \notin {"await_batch", "put", "pool_shutdown"}
    /\ enqueued = << >>
    /\ \A i \in DOMAIN db_worker_queue : IsSentinel(db_worker_queue[i])
    /\ Len(db_worker_queue) <= 1
    /\ buffer = << >>
    /\ flush_log = << >>
    /\ store = first_run.store

(* the statement as given: only worker and flush failures are excluded
   from the first run *)
C28_SecondRunDoesNothing == runs_done = 1 => SecondRunIdle

(* C28 as amended: the first run must also have collected every data config
   (none skipped because collect_data or the query of existing results
   raised) *)
C28_RerunIdempotent ==
    (runs_done = 1 /\ first_run.skipped = {}) => SecondRunIdle

C28_Witness ==
    /\ runs_done = 1
    /\ first_run.skipped = {}
    /\ main_pc = "done"
    /\ w_pc = "done"
    /\ Len(data_configs) = 2
    /\ data_configs[1] # data_configs[2]
    /\ required_simulations # {}
    /\ Cardinality(store) >= 4
    /\ store = first_run.store

(***************************************************************************)
(* C29: under fair scheduling and with no worker or flush failure, main    *)
(* terminates; the sentinel is enqueued exactly once and after every       *)
(* result; the result of every missing task is persisted; the consumer     *)
(* task ends with an empty buffer.                                         *)
(***************************************************************************)
RunFailed == WorkerFailed \/ w_pc = "failed"

SentinelsQueued == { i \in DOMAIN db_worker_queue : IsSentinel(db_worker_queue[i]) }

SentinelPut == main_pc \in {"await_consumer", "done"}

(* at most one sentinel, behind every queued result, put when main leaves
   its finally block; taken by the consumer only then *)
SentinelOnceAndLast ==
    /\ Cardinality(SentinelsQueued) <= 1
    /\ SentinelsQueued \subseteq { Len(db_worker_queue) }
    /\ SentinelsQueued # {} => SentinelPut
    /\ w_pc \in {"final", "done"} => (SentinelPut /\ db_worker_queue = << >>)
    /\ (SentinelPut /\ w_pc \in {"get", "flush"}) => Cardinality(SentinelsQueued) = 1

AllMissingPersisted ==
    \A t \in missing_simulations : Row(run_single_simulation_for_MACD(t)) \in store

NoResultAfterSentinel ==
    SentinelPut => (enqueued' = enqueued /\ SentinelPut')

C29_Safety ==
    /\ SentinelOnceAndLast
    /\ (main_pc = "done" /\ ~RunFailed) =>
          /\ w_pc = "done"
          /\ AllMissingPersisted
          /\ Len(enqueued) = Cardinality(missing_simulations)

(* the statement as given: the buffer is empty when the consumer ends *)
C29_EndsWithEmptyBuffer ==
    /\ <>(RunFailed \/ (main_pc = "done" /\ w_pc = "done"))
    /\ [](C29_Safety /\ (w_pc = "done" => buffer = << >>))
    /\ [][NoResultAfterSentinel]_vars

(* C29 as amended: the consumer task ends with every buffered record
   inserted; the buffer list still holds the records of the last insert when
   that insert was the one after the sentinel. *)
C29_FairRunTerminates ==
    /\ <>(RunFailed \/ (main_pc = "done" /\ w_pc = "done"))
    /\ [](C29_Safety
            /\ (w_pc = "done" =>
                  /\ \A i \in DOMAIN buffer : Row(buffer[i]) \in store
                  /\ \/ buffer = << >>
                     \/ flush_log # << >> /\ buffer = flush_log[Len(flush_log)]))
    /\ [][NoResultAfterSentinel]_vars

C29_Witness ==
    /\ main_pc = "done"
    /\ w_pc = "done"
    /\ ~RunFailed
    /\ Cardinality(missing_simulations) = 3
    /\ Len(batches) = 2
    /\ code_execution_control.db_bulk_insert_size = 2
    /\ Len(flush_log) = 2
    /\ Len(buffer) = 1
    /\ Cardinality(store) = 3

=============================================================================
